---- MODULE Spec2Model ----
(***************************************************************************)
(* Model of the layered velocity-grid engine of PyVM (pyvm.models):        *)
(* the CartesianGrid3D grid, the interface stack rf/jp/ir/ij of VM, and    *)
(* the operations of VM and VMTools on them.                               *)
(*                                                                         *)
(* Coordinates, depths, slowness values and jumps are integers.  Indices   *)
(* are 0-based as in the source; a numpy array of surfaces is a sequence,  *)
(* so that interface i of the source is element i + 1 of the sequence.     *)
(* A surface is a function from the horizontal nodes <<ix, iy>> to values. *)
(***************************************************************************)
EXTENDS Integers, Sequences, FiniteSets, TLC

VARIABLES shape, origin, spacing, sl, rf, jp, ir, ij, last,
          arrays, grids, files

vars ==
  <<shape, origin, spacing, sl, rf, jp, ir, ij, last, arrays, grids, files>>

\* the objects besides the model: the numpy arrays and the CartesianGrid3D
\* objects of the caller, and the files written
others == <<arrays, grids, files>>

\* a program that has constructed nothing but a model
no_others == arrays = << >> /\ grids = << >> /\ files = << >>

(***************************************************************************)
(* Bounds of the model.                                                    *)
(***************************************************************************)
MaxNr == 2
MaxDepth == 1
MaxCoord == 5
MaxSl == 2
MaxGrids == 2

(***************************************************************************)
(* Generic helpers.                                                        *)
(***************************************************************************)
Max(S) == CHOOSE m \in S : \A e \in S : e <= m

\* numpy.ones((nx, ny)) * c and the index set of such an array
Nodes(a, b) == (0 .. a - 1) \X (0 .. b - 1)

Full(a, b, c) == [n \in Nodes(a, b) |-> c]

Nodes3(shp) == (0 .. shp[1] - 1) \X (0 .. shp[2] - 1) \X (0 .. shp[3] - 1)

\* element i (0-based) of an array of surfaces
At(arr, i) == arr[i + 1]

\* numpy.insert(arr, i, s, 0) for a scalar index i
np_insert_dup(arr, i, s) ==
  [k \in 1 .. Len(arr) |-> IF k = i + 1 THEN s ELSE arr[k]]

np_insert(arr, i, s) ==
  [k \in 1 .. Len(arr) + 1 |->
     IF k <= i THEN arr[k] ELSE IF k = i + 1 THEN s ELSE arr[k - 1]]

(***************************************************************************)
(* grids.py                                                                *)
(***************************************************************************)
\* numpy.round: round half to even, of the exact quotient a / d, d > 0
np_round_half_up(a, d) ==
  LET q == a \div d
      r == a % d
  IN  IF 2 * r < d THEN q ELSE q + 1

np_round(a, d) ==
  LET q == a \div d
      r == a % d
  IN  IF 2 * r < d THEN q
      ELSE IF 2 * r > d THEN q + 1
      ELSE IF q % 2 = 0 THEN q ELSE q + 1

np_clip_open(i, lo, hi) ==
  IF i < lo THEN lo ELSE IF i > hi + 1 THEN hi + 1 ELSE i

np_clip(i, lo, hi) == IF i < lo THEN lo ELSE IF i > hi THEN hi ELSE i

coord2index(x, x0, d, n) == np_clip(np_round(x - x0, d), 0, n - 1)

nx == shape[1]

ny == shape[2]

nz == shape[3]

dx == spacing[1]

dy == spacing[2]

dz == spacing[3]

\* CartesianGrid3D.x / y / z at one index
grid_x(i) == origin[1] + dx * i

grid_y(i) == origin[2] + dy * i

grid_z(i) == origin[3] + dz * i

x2i(x) == coord2index(x, origin[1], dx, nx)

y2i(y) == coord2index(y, origin[2], dy, ny)

z2i(z) == coord2index(z, origin[3], dz, nz)

(***************************************************************************)
(* vm.py: derived properties                                               *)
(***************************************************************************)
nr == Len(rf)

r1 == origin

r2 == <<grid_x(nx - 1), grid_y(ny - 1), grid_z(nz - 1)>>

\* VM._init_model: a zero grid of the given shape and no interfaces
\* (self.rf = self.jp = self.ir = self.ij = [])
init_model(shp, org, spc) ==
  /\ shape = shp
  /\ origin = org
  /\ spacing = spc
  /\ sl = [n \in Nodes3(shp) |-> 0]
  /\ rf = << >>
  /\ jp = << >>
  /\ ir = << >>
  /\ ij = << >>
  /\ last = [op |-> "init", err |-> "none"]

\* VM.get_layer_bounds: the two surfaces, once the assertion has passed
layer_bottom_past(ilyr) ==
  IF ilyr >= nr THEN Full(nx, ny, origin[3] + dz * nz) ELSE At(rf, ilyr)

layer_top(ilyr) ==
  IF ilyr = 0 THEN Full(nx, ny, r1[3]) ELSE At(rf, ilyr - 1)

layer_bottom(ilyr) ==
  IF ilyr >= nr THEN Full(nx, ny, r2[3]) ELSE At(rf, ilyr)

get_layer_bounds(ilyr) ==
  /\ last' = IF (ilyr >= 0) /\ (ilyr <= nr)
             THEN [op |-> "get_layer_bounds", ilyr |-> ilyr, err |-> "none",
                   z0 |-> layer_top(ilyr), z1 |-> layer_bottom(ilyr)]
             ELSE [op |-> "get_layer_bounds", ilyr |-> ilyr,
                   err |-> "AssertionError"]
  /\ UNCHANGED <<shape, origin, spacing, sl, rf, jp, ir, ij, others>>

\* CartesianGrid3D.x2i / y2i / z2i on one coordinate
axis2i(axis, c) ==
  IF axis = 1 THEN x2i(c) ELSE IF axis = 2 THEN y2i(c) ELSE z2i(c)

coord_to_index(axis, c) ==
  /\ last' = [op |-> "coord2index", axis |-> axis, x |-> c, err |-> "none",
              ret |-> axis2i(axis, c)]
  /\ UNCHANGED <<shape, origin, spacing, sl, rf, jp, ir, ij, others>>

(***************************************************************************)
(* tools.py: VMTools.insert_interface                                      *)
(*                                                                         *)
(* An argument is [kind |-> "none"], [kind |-> "scalar", val |-> c] or     *)
(* [kind |-> "array", val |-> s] with s a surface.                         *)
(***************************************************************************)
None == [kind |-> "none"]

Scalar(c) == [kind |-> "scalar", val |-> c]

Array(s) == [kind |-> "array", val |-> s]

\* numpy.asarray(a).size == 1
size1(a) ==
  \/ a.kind = "scalar"
  \/ a.kind = "array" /\ Cardinality(DOMAIN a.val) = 1

\* a *= numpy.ones((nx, ny)) for an argument of size 1; an array is updated
\* in place and must already have the shape (nx, ny)
expand_fails(a) ==
  a.kind = "array" /\ size1(a) /\ DOMAIN a.val # Nodes(nx, ny)

expand_unit(a) == IF a.kind = "scalar" THEN Full(1, 1, a.val) ELSE a.val

expand(a) == IF a.kind = "scalar" THEN Full(nx, ny, a.val) ELSE a.val

\* assert numpy.asarray(v).shape == (nx, ny)
shape_fails(a) == a.kind = "array" /\ DOMAIN a.val # Nodes(nx, ny)

nanmax(s) == Max({s[n] : n \in DOMAIN s})

\* the index of the new interface: lines 141-144
insert_index_strict(new_rf) ==
  Cardinality({k \in 1 .. nr : nanmax(new_rf) > nanmax(rf[k])})

insert_index_reversed(new_rf) ==
  Cardinality({k \in 1 .. nr : nanmax(new_rf) <= nanmax(rf[k])})

insert_index(new_rf) ==
  Cardinality({k \in 1 .. nr : nanmax(new_rf) >= nanmax(rf[k])})

\* the defaults of jp, ir and ij: lines 146-151
default_jump(a) == IF a.kind = "none" THEN Array(Full(nx, ny, 0)) ELSE a

default_mask(a, iref) ==
  IF a.kind = "none" THEN Array(Full(nx, ny, iref)) ELSE a

\* the new interface stored in the four arrays: lines 164-173
stored(arr, iref, s, first) ==
  IF nr = 0 THEN <<first>> ELSE np_insert(arr, iref, s)

\* the mask entries of the interfaces below the new one: lines 174-178
renumber_above(arr, iref) ==
  [k \in 1 .. Len(arr) |->
     IF k - 1 >= iref + 1
     THEN [n \in DOMAIN arr[k] |->
             IF arr[k][n] > iref THEN arr[k][n] + 1 ELSE arr[k][n]]
     ELSE arr[k]]

renumber_from_new(arr, iref) ==
  [k \in 1 .. Len(arr) |->
     IF k - 1 >= iref
     THEN [n \in DOMAIN arr[k] |->
             IF arr[k][n] >= iref THEN arr[k][n] + 1 ELSE arr[k][n]]
     ELSE arr[k]]

renumber(arr, iref) ==
  [k \in 1 .. Len(arr) |->
     IF k - 1 >= iref + 1
     THEN [n \in DOMAIN arr[k] |->
             IF arr[k][n] >= iref THEN arr[k][n] + 1 ELSE arr[k][n]]
     ELSE arr[k]]

insert_error(a_rf, a_jp, a_ir, a_ij) ==
  IF expand_fails(a_rf) \/ expand_fails(a_jp) \/ expand_fails(a_ir)
     \/ expand_fails(a_ij)
  THEN "ValueError"
  ELSE IF shape_fails(a_rf) \/ shape_fails(a_jp) \/ shape_fails(a_ir)
          \/ shape_fails(a_ij)
  THEN "AssertionError"
  ELSE "none"

\* insert_interface on a stack of fewer than most interfaces
insert_into(most, a_rf, a_jp, a_ir, a_ij) ==
  LET e == insert_error(a_rf, a_jp, a_ir, a_ij)
      new_rf == expand(a_rf)
      iref == insert_index(new_rf)
      new_jp == expand(default_jump(a_jp))
      new_ir == expand(default_mask(a_ir, iref))
      new_ij == expand(default_mask(a_ij, iref))
  IN  /\ nr < most
      /\ IF e # "none"
         THEN /\ UNCHANGED <<rf, jp, ir, ij>>
              /\ last' = [op |-> "insert_interface", rf |-> a_rf, jp |-> a_jp,
                          ir |-> a_ir, ij |-> a_ij, err |-> e]
         ELSE /\ rf' = stored(rf, iref, new_rf, new_rf)
              /\ jp' = stored(jp, iref, new_jp, new_jp)
              /\ ir' = renumber(stored(ir, iref, new_ir, new_ir), iref)
              /\ ij' = renumber(stored(ij, iref, new_ij, new_jp), iref)
              /\ last' = [op |-> "insert_interface", rf |-> a_rf, jp |-> a_jp,
                          ir |-> a_ir, ij |-> a_ij, err |-> "none",
                          ret |-> iref]
      /\ UNCHANGED <<shape, origin, spacing, sl, others>>

insert_interface(a_rf, a_jp, a_ir, a_ij) ==
  insert_into(MaxNr, a_rf, a_jp, a_ir, a_ij)

(***************************************************************************)
(* vm.py: VM.apply_jumps / VM.remove_jumps                                 *)
(*                                                                         *)
(* iref is None or [kind |-> "list", val |-> <<i1, i2, ...>>].             *)
(***************************************************************************)
List(q) == [kind |-> "list", val |-> q]

same_arg(a, b) == a.kind = b.kind /\ (a.kind = "none" \/ a.val = b.val)

\* the two inner loops for one interface: sl[ix, iy, iz0:] += / -= jp
jump_at_below(g, i, sign) ==
  [n \in DOMAIN g |->
     IF n[3] > z2i(layer_top(i + 1)[<<n[1], n[2]>>])
     THEN g[n] + sign * At(jp, i)[<<n[1], n[2]>>]
     ELSE g[n]]

jump_at(g, i, sign) ==
  [n \in DOMAIN g |->
     IF n[3] >= z2i(layer_top(i + 1)[<<n[1], n[2]>>])
     THEN g[n] + sign * At(jp, i)[<<n[1], n[2]>>]
     ELSE g[n]]

\* the loop over the selected interfaces; get_layer_bounds(_iref + 1)
\* asserts that the layer exists and ends the loop when it does not
RECURSIVE jump_loop(_, _, _)
jump_loop(g, irefs, sign) ==
  IF irefs = << >> THEN [g |-> g, err |-> "none"]
  ELSE IF ~((Head(irefs) + 1 >= 0) /\ (Head(irefs) + 1 <= nr))
  THEN [g |-> g, err |-> "AssertionError"]
  ELSE jump_loop(jump_at(g, Head(irefs), sign), Tail(irefs), sign)

selected(iref) ==
  IF iref.kind = "none" THEN [k \in 1 .. nr |-> k - 1] ELSE iref.val

\* remove is False: += ; otherwise: -=
jump_sign_add(remove) == 1

jump_sign(remove) == IF remove THEN -1 ELSE 1

apply_jumps(iref, remove) ==
  LET r == jump_loop(sl, selected(iref), jump_sign(remove))
      after_apply == remove /\ last.op = "apply_jumps"
                     /\ same_arg(last.iref, iref)
  IN  /\ \A n \in DOMAIN r.g : r.g[n] \in -MaxSl .. MaxSl
      /\ sl' = r.g
      /\ last' = [op |-> IF remove THEN "remove_jumps" ELSE "apply_jumps",
                  iref |-> iref, err |-> r.err, before |-> sl,
                  after_apply |-> after_apply,
                  start |-> IF after_apply THEN last.before ELSE sl]
      /\ UNCHANGED <<shape, origin, spacing, rf, jp, ir, ij, others>>

remove_jumps(iref) == apply_jumps(iref, TRUE)

(***************************************************************************)
(* vm.py: assignment to the properties of VM                               *)
(*                                                                         *)
(* An assigned array is [shape |-> its numpy shape, data |-> its elements  *)
(* along the first axis].                                                  *)
(***************************************************************************)
\* _set_rf / _set_jp / _set_ir / _set_ij: the check they share
\* (an empty array is stored unchecked; shape[1] and shape[2] must exist)
set_array_error_lenient(value) ==
  IF value.shape[1] = 0 THEN "none"
  ELSE IF Len(value.shape) < 3 THEN "IndexError"
  ELSE IF value.shape[2] # nx THEN "ValueError"
  ELSE "none"

set_array_error(value) ==
  IF value.shape[1] = 0 THEN "none"
  ELSE IF Len(value.shape) < 3 THEN "IndexError"
  ELSE IF <<value.shape[2], value.shape[3]>> # <<nx, ny>> THEN "ValueError"
  ELSE "none"

set_array(attr, value) ==
  LET e == set_array_error(value)
  IN  /\ rf' = IF attr = "rf" /\ e = "none" THEN value.data ELSE rf
      /\ jp' = IF attr = "jp" /\ e = "none" THEN value.data ELSE jp
      /\ ir' = IF attr = "ir" /\ e = "none" THEN value.data ELSE ir
      /\ ij' = IF attr = "ij" /\ e = "none" THEN value.data ELSE ij
      /\ last' = [op |-> "set", attr |-> attr, value |-> value, err |-> e]
      /\ UNCHANGED <<shape, origin, spacing, sl, others>>

set_rf(value) == set_array("rf", value)

set_jp(value) == set_array("jp", value)

set_ir(value) == set_array("ir", value)

set_ij(value) == set_array("ij", value)

\* _set_sl: self.grid.values = values, with no check
set_sl(value) ==
  /\ shape' = value.shape
  /\ sl' = value.data
  /\ last' = [op |-> "set", attr |-> "sl", value |-> value, err |-> "none"]
  /\ UNCHANGED <<origin, spacing, rf, jp, ir, ij, others>>

\* _set_r1
set_r1_error(value) == IF Len(value) # 3 THEN "ValueError" ELSE "none"

set_r1(value) ==
  LET e == set_r1_error(value)
  IN  /\ origin' = IF e = "none" THEN value ELSE origin
      /\ last' = [op |-> "set", attr |-> "r1", value |-> value, err |-> e]
      /\ UNCHANGED <<shape, spacing, sl, rf, jp, ir, ij, others>>

\* a float stored in an integer numpy array is cut towards zero
int_quotient(a, b) == IF a >= 0 THEN a \div b ELSE -((-a) \div b)

\* _set_r2: dx = (value[0] - origin[0]) / nx, and so for dy and dz
set_r2(value) ==
  LET e == IF Len(value) # 3 THEN "ValueError" ELSE "none"
  IN  /\ spacing' = IF e = "none"
                    THEN [d \in 1 .. 3 |->
                            int_quotient(value[d] - origin[d], shape[d])]
                    ELSE spacing
      /\ last' = [op |-> "set", attr |-> "r2", value |-> value, err |-> e]
      /\ UNCHANGED <<shape, origin, sl, rf, jp, ir, ij, others>>

\* nx, ny, nz and nr are properties without a setter
set_readonly(attr, value) ==
  /\ last' = [op |-> "set", attr |-> attr, value |-> value,
              err |-> "AttributeError"]
  /\ UNCHANGED <<shape, origin, spacing, sl, rf, jp, ir, ij, others>>

(***************************************************************************)
(* Arguments of the calls.                                                 *)
(***************************************************************************)
Depths == 0 .. MaxDepth

\* a surface whose shape is not that of the grid
OtherSurface == IF nx = 1 THEN Full(2, 1, 0) ELSE Full(1, 1, 0)

\* a surface with one value at node <<0, 0>> and another at the other nodes
Slope(lo, hi) == [n \in Nodes(nx, ny) |-> IF n = <<0, 0>> THEN lo ELSE hi]

\* depth surfaces: the flat ones, the two steepest ones, one of a wrong shape
RfArgs ==
  {Scalar(d) : d \in Depths}
  \cup {Array(Full(nx, ny, MaxDepth))}
  \cup {Array(Slope(0, MaxDepth)), Array(Slope(MaxDepth, 0))}
  \cup {Array(OtherSurface)}

\* jump, depth mask and jump mask
OtherArgs ==
  { <<None, None, None>>,
    <<Scalar(1), None, None>>,
    <<None, Scalar(-1), Scalar(0)>>,
    <<Array(Slope(1, 2)), Scalar(0), Scalar(-1)>>,
    <<Scalar(2), Array(Slope(0, 1)), Array(Slope(-1, 1))>> }

\* selections of interfaces; the last one names an interface that may not exist
JumpArgs ==
  {None, List(<<0>>), List(<<1, 0>>), List(<<0, 0>>), List(<<0, MaxNr - 1>>)}

\* arrays assigned to rf, jp, ir and ij
ArrayValues ==
  { [shape |-> <<0>>, data |-> << >>],
    [shape |-> <<0, 3, 1>>, data |-> << >>],
    [shape |-> <<2>>, data |-> <<5, 5>>] }
  \cup { [shape |-> <<1, h[1], h[2]>>, data |-> <<Full(h[1], h[2], 0)>>] :
           h \in {<<1, 1>>, <<2, 1>>, <<1, 2>>} }

GridValues ==
  { [shape |-> shp, data |-> [n \in Nodes3(shp) |-> 1]] :
      shp \in {<<1, 1, 2>>, <<2, 1, 2>>} }

(***************************************************************************)
(* The four arrays hold nr surfaces each, every one of the horizontal      *)
(* shape (nx, ny) of the grid.                                             *)
(***************************************************************************)
SharedShape ==
  \A arr \in {rf, jp, ir, ij} :
    /\ Len(arr) = nr
    /\ \A k \in 1 .. Len(arr) : DOMAIN arr[k] = Nodes(nx, ny)

(***************************************************************************)
(* Spec: construction, insert_interface and get_layer_bounds.              *)
(***************************************************************************)
Init ==
  \E shp \in {<<1, 1, 2>>, <<2, 1, 2>>} :
    /\ no_others
    /\ \/ init_model(shp, <<0, 0, 0>>, <<1, 1, 1>>)
       \/ init_model(shp, <<0, 0, -1>>, <<1, 1, 2>>)

Insert ==
  \E a_rf \in RfArgs, o \in OtherArgs :
    insert_interface(a_rf, o[1], o[2], o[3])

LayerBounds == \E ilyr \in -1 .. MaxNr + 1 : get_layer_bounds(ilyr)

Next == Insert \/ LayerBounds

Spec == Init /\ [][Next]_vars

(***************************************************************************)
(* SpecDefaults: insert_interface with jp, ir and ij left out.             *)
(***************************************************************************)
InsertDefault == \E a_rf \in RfArgs : insert_interface(a_rf, None, None, None)

NextDefaults == InsertDefault \/ LayerBounds

SpecDefaults == Init /\ [][NextDefaults]_vars

(***************************************************************************)
(* SpecMasks: up to MaxNr + 1 flat interfaces with given depth masks are   *)
(* inserted into a model of one column.                                    *)
(***************************************************************************)
InitMasks == init_model(<<1, 1, 2>>, <<0, 0, 0>>, <<1, 1, 1>>) /\ no_others

InsertMasked ==
  \E d \in 0 .. MaxDepth + 1, a_ir \in {None, Scalar(-1), Scalar(0), Scalar(1)},
     a_ij \in {None, Scalar(1)} :
    insert_into(MaxNr + 1, Scalar(d), None, a_ir, a_ij)

NextMasks == InsertMasked

SpecMasks == InitMasks /\ [][NextMasks]_vars

(***************************************************************************)
(* SpecGrid: coordinates to indices on grids of several origins, spacings  *)
(* and shapes.                                                             *)
(***************************************************************************)
InitGrid ==
  \E shp \in {<<1, 1, 2>>, <<2, 1, 3>>, <<3, 2, 1>>},
     org \in {<<0, 0, 0>>, <<-1, 1, 0>>},
     spc \in {<<1, 1, 1>>, <<2, 1, 2>>, <<1, 2, 1>>} :
    init_model(shp, org, spc) /\ no_others

CoordToIndex ==
  \E axis \in 1 .. 3, c \in -MaxCoord .. MaxCoord : coord_to_index(axis, c)

NextGrid == CoordToIndex

SpecGrid == InitGrid /\ [][NextGrid]_vars

(***************************************************************************)
(* SpecJumps: interfaces with jumps, apply_jumps and remove_jumps.         *)
(***************************************************************************)
InitJumps ==
  \E shp \in {<<1, 1, 3>>, <<2, 1, 2>>} :
    init_model(shp, <<0, 0, 0>>, <<1, 1, 1>>) /\ no_others

InsertJump ==
  \E a_rf \in {Scalar(d) : d \in Depths} \cup {Array(Slope(0, MaxDepth))},
     a_jp \in {Scalar(1), Array(Slope(1, -1))} :
    insert_interface(a_rf, a_jp, None, None)

ApplyJumps == \E iref \in JumpArgs : apply_jumps(iref, FALSE)

RemoveJumps == \E iref \in JumpArgs : remove_jumps(iref)

NextJumps == InsertJump \/ ApplyJumps \/ RemoveJumps

SpecJumps == InitJumps /\ [][NextJumps]_vars

(***************************************************************************)
(* SpecJumpDepths: jumps at interfaces that lie between the samples of a   *)
(* grid of spacing 4, above its top or below its bottom.                   *)
(***************************************************************************)
InitJumpDepths ==
  init_model(<<2, 1, 2>>, <<0, 0, 0>>, <<1, 1, 4>>) /\ no_others

\* depths above the top (-1), nearer to the sample above (1), nearer to the
\* sample below (3), below the bottom (9), and halfway between two samples
\* (2 and 6)
OffNodeDepths ==
  {Scalar(d) : d \in {-1, 1, 3, 9}} \cup {Array(Slope(2, 6))}

InsertJumpDepth ==
  \E a_rf \in OffNodeDepths :
    insert_interface(a_rf, Array(Slope(1, -1)), None, None)

ApplyJumpDepths == \E iref \in JumpArgs : apply_jumps(iref, FALSE)

RemoveJumpDepths == \E iref \in JumpArgs : remove_jumps(iref)

NextJumpDepths == InsertJumpDepth \/ ApplyJumpDepths \/ RemoveJumpDepths

SpecJumpDepths == InitJumpDepths /\ [][NextJumpDepths]_vars

(***************************************************************************)
(* SpecAssign: assignment to the properties of the model.  insert_interface*)
(* is called on a model whose four arrays agree with each other and with   *)
(* the grid; numpy.insert on arrays that disagree is outside the model.    *)
(***************************************************************************)
InitAssign ==
  \E shp \in {<<1, 1, 2>>, <<2, 1, 2>>} :
    init_model(shp, <<0, 0, 0>>, <<1, 1, 1>>) /\ no_others

SetRf == \E value \in ArrayValues : set_rf(value)

SetJp == \E value \in ArrayValues : set_jp(value)

SetIr == \E value \in ArrayValues : set_ir(value)

SetIj == \E value \in ArrayValues : set_ij(value)

SetSl == \E value \in GridValues : set_sl(value)

SetR1 == \E value \in {<<0, 0, 1>>, <<0, 0>>} : set_r1(value)

SetR2 == \E value \in {<<4, 2, 4>>, <<4, 4>>} : set_r2(value)

SetReadonly == \E attr \in {"nx", "ny", "nz", "nr"} : set_readonly(attr, 9)

InsertAgreed ==
  /\ SharedShape
  /\ \E a_rf \in {Scalar(d) : d \in Depths} :
       insert_interface(a_rf, None, None, None)

NextAssign ==
  \/ SetRf
  \/ SetJp
  \/ SetIr
  \/ SetIj
  \/ SetSl
  \/ SetR1
  \/ SetR2
  \/ SetReadonly
  \/ InsertAgreed

SpecAssign == InitAssign /\ [][NextAssign]_vars

(***************************************************************************)
(* grids.py: the CartesianGrid3D objects of the caller                     *)
(*                                                                         *)
(* A numpy array is [shape |-> its shape, data |-> its elements in C       *)
(* order]; arrays[a] is the array with identity a.  A grid is              *)
(* [values |-> a, shape |-> s, origin |-> o, spacing |-> d]: its values    *)
(* are a view of shape s on the array a.  The arrays hold floating-point   *)
(* numbers with integer values.                                            *)
(***************************************************************************)
\* numpy.atleast_3d: the shape of the view (it copies nothing)
atleast_3d_trailing(shp) ==
  IF Len(shp) = 0 THEN <<1, 1, 1>>
  ELSE IF Len(shp) = 1 THEN <<shp[1], 1, 1>>
  ELSE IF Len(shp) = 2 THEN <<shp[1], shp[2], 1>>
  ELSE shp

atleast_3d(shp) ==
  IF Len(shp) = 0 THEN <<1, 1, 1>>
  ELSE IF Len(shp) = 1 THEN <<1, shp[1], 1>>
  ELSE IF Len(shp) = 2 THEN <<shp[1], shp[2], 1>>
  ELSE shp

\* CartesianGrid3D.__init__: the two assertions, then the three fields
grid_init_error(org, spc) ==
  IF Len(org) # 3 \/ Len(spc) # 3 THEN "AssertionError" ELSE "none"

grid_init(a, org, spc) ==
  LET e == grid_init_error(org, spc)
      g == [values |-> a, shape |-> atleast_3d(arrays[a].shape),
            origin |-> org, spacing |-> spc]
  IN  /\ Len(grids) < MaxGrids
      /\ grids' = IF e = "none" THEN Append(grids, g) ELSE grids
      /\ last' = IF e = "none"
                 THEN [op |-> "grid_init", values |-> a, origin |-> org,
                       spacing |-> spc, err |-> e, ret |-> Len(grids) + 1]
                 ELSE [op |-> "grid_init", values |-> a, origin |-> org,
                       spacing |-> spc, err |-> e]
      /\ UNCHANGED <<shape, origin, spacing, sl, rf, jp, ir, ij, arrays,
                     files>>

\* the position in C order of the element n of an array of shape shp
ravel(n, shp) == (n[1] * shp[2] + n[2]) * shp[3] + n[3] + 1

\* numpy broadcasting of an operand of shape sb into an array of shape sa,
\* which an in-place operation cannot enlarge
broadcastable(sb, sa) == \A d \in 1 .. 3 : sb[d] = sa[d] \/ sb[d] = 1

broadcast_index(n, sb) == [d \in 1 .. 3 |-> IF sb[d] = 1 THEN 0 ELSE n[d]]

\* isinstance(other, type(self)): other.values, otherwise other itself
Grid(g) == [kind |-> "grid", val |-> g]

operand(other, n) ==
  IF other.kind = "grid"
  THEN arrays[grids[other.val].values].data[
         ravel(broadcast_index(n, grids[other.val].shape),
              grids[other.val].shape)]
  ELSE other.val

\* x / y where the quotient is a whole number
divides(y, x) == y # 0 /\ \E q \in -MaxSl .. MaxSl : q * y = x

true_divide(x, y) == CHOOSE q \in -MaxSl .. MaxSl : q * y = x

\* +=, -=, *= and /= on one element
ufunc(op, x, y) ==
  IF op = "add" THEN x + y
  ELSE IF op = "sub" THEN x - y
  ELSE IF op = "mul" THEN x * y
  ELSE true_divide(x, y)

\* __add__ / __sub__ / __mul__ / __truediv__: self.values op= ...; return self
arith_error(g, other) ==
  IF other.kind = "grid"
     /\ ~broadcastable(grids[other.val].shape, grids[g].shape)
  THEN "ValueError"
  ELSE "none"

arith_values(op, g, other) ==
  LET shp == grids[g].shape
      old == arrays[grids[g].values].data
  IN  [k \in 1 .. Len(old) |->
         LET n == CHOOSE m \in Nodes3(shp) : ravel(m, shp) = k
         IN  ufunc(op, old[k], operand(other, n))]

arith(op, g, other) ==
  LET e == arith_error(g, other)
      new == arith_values(op, g, other)
  IN  /\ e = "none" =>
           /\ op = "truediv" =>
                \A n \in Nodes3(grids[g].shape) :
                  divides(operand(other, n),
                          arrays[grids[g].values].data[
                            ravel(n, grids[g].shape)])
           /\ \A k \in DOMAIN new : new[k] \in 0 .. MaxSl
      /\ arrays' = IF e = "none"
                   THEN [arrays EXCEPT ![grids[g].values].data = new]
                   ELSE arrays
      /\ last' = IF e = "none"
                 THEN [op |-> op, self |-> g, other |-> other, err |-> e,
                       ret |-> g]
                 ELSE [op |-> op, self |-> g, other |-> other, err |-> e]
      /\ UNCHANGED <<shape, origin, spacing, sl, rf, jp, ir, ij, grids,
                     files>>

\* copy: copy.deepcopy(self), whose values are a new array
shared_values(g) == grids[g].values

copied_values(g) == Len(arrays) + 1

grid_copy(g) ==
  /\ Len(grids) < MaxGrids
  /\ arrays' = Append(arrays, [shape |-> grids[g].shape,
                               data |-> arrays[grids[g].values].data])
  /\ grids' = Append(grids, [grids[g] EXCEPT !.values = copied_values(g)])
  /\ last' = [op |-> "copy", self |-> g, err |-> "none",
              ret |-> Len(grids) + 1]
  /\ UNCHANGED <<shape, origin, spacing, sl, rf, jp, ir, ij, files>>

(***************************************************************************)
(* SpecObjects: grids built on the arrays of the caller, their arithmetic  *)
(* and their copies.                                                       *)
(***************************************************************************)
ArithOps == {"add", "sub", "mul", "truediv"}

InitObjects ==
  /\ init_model(<<1, 1, 1>>, <<0, 0, 0>>, <<1, 1, 1>>)
  /\ \E a \in { [shape |-> <<2>>, data |-> <<1, 2>>],
                 [shape |-> <<2, 1>>, data |-> <<1, 1>>],
                 [shape |-> <<1, 2, 1>>, data |-> <<2, 1>>] } :
       arrays = <<a>>
  /\ grids = << >>
  /\ files = << >>

GridInit ==
  \E a \in DOMAIN arrays,
     org \in {<<0, 0, 0>>, <<0, 0>>},
     spc \in {<<1, 1, 1>>, <<1, 1, 1, 1>>} :
    grid_init(a, org, spc)

GridArith ==
  \E op \in ArithOps, g \in DOMAIN grids,
     other \in {Scalar(2)} \cup {Grid(h) : h \in DOMAIN grids} :
    arith(op, g, other)

GridCopy == \E g \in DOMAIN grids : grid_copy(g)

NextObjects == GridInit \/ GridArith \/ GridCopy

SpecObjects == InitObjects /\ [][NextObjects]_vars

(***************************************************************************)
(* io.py: the native vm format                                             *)
(*                                                                         *)
(* A file is a sequence of 4-byte words [t |-> "i4" or "f4", v |-> value]; *)
(* files[f] is the content of the file f = <<name, extension>>.            *)
(***************************************************************************)
\* numpy.int32(v): every integer of the model is within 32 bits
np_int32(v) == v

\* numpy.float32(v) for a whole number v up to 2^30: 24 bits of mantissa,
\* ties to the even mantissa
np_float32(v) ==
  LET m == IF v < 0 THEN -v ELSE v
      e == CHOOSE k \in 0 .. 6 :
             /\ m <= 2 ^ (24 + k)
             /\ \A j \in 0 .. k - 1 : m > 2 ^ (24 + j)
      r == (2 ^ e) * np_round(m, 2 ^ e)
  IN  IF v < 0 THEN -r ELSE r

\* pyvm.io.pack: the words written for a sequence of values
pack_4byte_Integer(vals) ==
  [k \in 1 .. Len(vals) |-> [t |-> "i4", v |-> vals[k]]]

pack_4byte_IEEE(vals) ==
  [k \in 1 .. Len(vals) |-> [t |-> "f4", v |-> vals[k]]]

\* pyvm.io.unpack: the n values that start at word pos (1-based)
unpack_4byte_Integer(words, pos, n) ==
  [k \in 1 .. n |-> words[pos + k - 1].v]

unpack_4byte_IEEE(words, pos, n) ==
  [k \in 1 .. n |-> words[pos + k - 1].v]

\* numpy.reshape of the grid values to one dimension, and back
ravel_grid(g, shp) ==
  [k \in 1 .. shp[1] * shp[2] * shp[3] |->
     g[CHOOSE n \in Nodes3(shp) : ravel(n, shp) = k]]

reshape_grid(vals, shp) == [n \in Nodes3(shp) |-> vals[ravel(n, shp)]]

\* numpy.reshape of nr surfaces to one dimension, and back to (nr, nx, ny)
ravel_surfaces(arr, a, b) ==
  [k \in 1 .. Len(arr) * a * b |->
     arr[((k - 1) \div (a * b)) + 1][
       <<((k - 1) % (a * b)) \div b, ((k - 1) % (a * b)) % b>>]]

reshape_surfaces(vals, n, a, b) ==
  [i \in 1 .. n |->
     [m \in Nodes(a, b) |-> vals[((i - 1) * a + m[1]) * b + m[2] + 1]]]

\* v + 1 and v - 1 on every element
plus_nothing(vals, c) == vals

plus(vals, c) == [k \in 1 .. Len(vals) |-> vals[k] + c]

narrow32(vals) == [k \in 1 .. Len(vals) |-> np_float32(vals[k])]

narrow_int32(vals) == [k \in 1 .. Len(vals) |-> np_int32(vals[k])]

\* _write_vm: the words written
write_masks_as_stored(arr) == narrow_int32(ravel_surfaces(arr, nx, ny))

write_masks(arr) == narrow_int32(plus(ravel_surfaces(arr, nx, ny), 1))

write_vm_words ==
  pack_4byte_Integer(narrow_int32(<<nx, ny, nz, nr>>))
  \o pack_4byte_IEEE(narrow32(r1))
  \o pack_4byte_IEEE(narrow32(r2))
  \o pack_4byte_IEEE(narrow32(<<dx, dy, dz>>))
  \o pack_4byte_IEEE(narrow32(ravel_grid(sl, shape)))
  \o (IF nr > 0
      THEN pack_4byte_IEEE(narrow32(ravel_surfaces(rf, nx, ny)))
           \o pack_4byte_IEEE(narrow32(ravel_surfaces(jp, nx, ny)))
           \o pack_4byte_Integer(write_masks(ir))
           \o pack_4byte_Integer(write_masks(ij))
      ELSE << >>)

\* _write_bin: CartesianGrid3D.to_bin with the default order and type
write_bin_words == pack_4byte_IEEE(narrow32(ravel_grid(sl, shape)))

\* _read_vm: the header is 4 integers and 9 floats
HeaderWords == 13

read_shape_as_read(words) ==
  LET h == unpack_4byte_Integer(words, 1, 4)
  IN  <<h[1], h[2], h[3]>>

read_shape(words) ==
  LET h == unpack_4byte_Integer(words, 1, 4)
  IN  IF h[3] = 0 THEN <<h[1], 1, h[2]>> ELSE <<h[1], h[2], h[3]>>

\* the model after _read_vm, and how far the words of the file reached:
\* unpack raises when the words it is asked for are not there
read_vm(words, head_only) ==
  LET shp == read_shape(words)
      n == unpack_4byte_Integer(words, 1, 4)[4]
      ngrid == shp[1] * shp[2] * shp[3]
      nintf == shp[1] * shp[2] * n
      have(k) == Len(words) >= HeaderWords + ngrid + k * nintf
      got(k) == ~head_only /\ have(k)
      at(k) == HeaderWords + ngrid + k * nintf + 1
      surfaces(vals) == reshape_surfaces(vals, n, shp[1], shp[2])
  IN  IF Len(words) < HeaderWords
      THEN [err |-> "struct.error", shape |-> shape, origin |-> origin,
            spacing |-> spacing, sl |-> sl, rf |-> rf, jp |-> jp,
            ir |-> ir, ij |-> ij]
      ELSE [err |-> IF head_only \/ have(4) THEN "none" ELSE "struct.error",
            shape |-> shp,
            origin |-> unpack_4byte_IEEE(words, 5, 3),
            spacing |-> unpack_4byte_IEEE(words, 11, 3),
            sl |-> IF got(0)
                   THEN reshape_grid(
                          unpack_4byte_IEEE(words, HeaderWords + 1, ngrid),
                          shp)
                   ELSE [m \in Nodes3(shp) |-> 0],
            rf |-> IF got(1)
                   THEN surfaces(unpack_4byte_IEEE(words, at(0), nintf))
                   ELSE << >>,
            jp |-> IF got(2)
                   THEN surfaces(unpack_4byte_IEEE(words, at(1), nintf))
                   ELSE << >>,
            ir |-> IF got(3)
                   THEN surfaces(
                          plus(unpack_4byte_Integer(words, at(2), nintf), -1))
                   ELSE << >>,
            ij |-> IF got(4)
                   THEN surfaces(
                          plus(unpack_4byte_Integer(words, at(3), nintf), -1))
                   ELSE << >>]

\* path_or_buf: a path name.ext, or a handle that the caller has just
\* opened on the file name.ext ('wb' for write, 'rb' for read)
Path(name, ext) == [kind |-> "path", name |-> name, ext |-> ext]

Handle(name, ext) == [kind |-> "handle", name |-> name, ext |-> ext]

file_of(target) == <<target.name, target.ext>>

\* fmt: None or a string
Fmt(s) == [kind |-> "str", val |-> s]

\* the _write_{fmt} and _read_{fmt} methods of VM
WriteFormats == {"vm", "bin"}

ReadFormats == {"vm"}

\* the method chosen by read and write: the extension of a path when fmt is
\* None, with 'vm' when there is no such method; otherwise fmt itself,
\* None included, and an AttributeError when there is no such method
method_of(target, fmt, formats) ==
  IF fmt.kind = "none" /\ target.kind = "path"
  THEN IF target.ext \in formats THEN target.ext ELSE "vm"
  ELSE IF fmt.kind = "str" /\ fmt.val \in formats THEN fmt.val
  ELSE "AttributeError"

\* 'if close:' where close was set for a path only
close_error(target) ==
  IF target.kind = "path" THEN "none" ELSE "UnboundLocalError"

\* VMIO.write: open(path, 'wb') empties the file before the method is looked
\* up; the handle of the caller is on an empty file
write(target, fmt) ==
  LET m == method_of(target, fmt, WriteFormats)
      words == IF m = "AttributeError" THEN << >>
               ELSE IF m = "vm" THEN write_vm_words
               ELSE write_bin_words
      e == IF m = "AttributeError" THEN m ELSE close_error(target)
  IN  /\ files' = (file_of(target) :> words) @@ files
      /\ last' = [op |-> "write", target |-> target, fmt |-> fmt,
                  method |-> m, err |-> e,
                  closed |-> target.kind = "path" /\ e = "none"]
      /\ UNCHANGED <<shape, origin, spacing, sl, rf, jp, ir, ij, arrays,
                     grids>>

\* VMIO.read: a path that cannot be opened, here or among the examples, is
\* an IOError
read(target, fmt, head_only) ==
  LET f == file_of(target)
      m == method_of(target, fmt, ReadFormats)
      r == read_vm(files[f], head_only)
      e == IF f \notin DOMAIN files THEN "IOError"
           ELSE IF m = "AttributeError" THEN m
           ELSE IF r.err # "none" THEN r.err
           ELSE close_error(target)
      ran == f \in DOMAIN files /\ m # "AttributeError"
  IN  /\ target.kind = "handle" => f \in DOMAIN files
      /\ shape' = IF ran THEN r.shape ELSE shape
      /\ origin' = IF ran THEN r.origin ELSE origin
      /\ spacing' = IF ran THEN r.spacing ELSE spacing
      /\ sl' = IF ran THEN r.sl ELSE sl
      /\ rf' = IF ran THEN r.rf ELSE rf
      /\ jp' = IF ran THEN r.jp ELSE jp
      /\ ir' = IF ran THEN r.ir ELSE ir
      /\ ij' = IF ran THEN r.ij ELSE ij
      /\ last' = [op |-> "read", target |-> target, fmt |-> fmt,
                  head_only |-> head_only,
                  method |-> IF f \in DOMAIN files THEN m ELSE "none",
                  err |-> e,
                  closed |-> target.kind = "path" /\ e = "none"]
      /\ UNCHANGED others

(***************************************************************************)
(* SpecIO: models written to files and read from files, among them two     *)
(* files that were not written by write: one whose header has nz = 0 and   *)
(* a far corner that fits nothing, and one that ends after its header.     *)
(* The model is built by assignment and insertion before the first file is *)
(* written; from then on it changes by reading only.                       *)
(***************************************************************************)
OldFile ==
  pack_4byte_Integer(<<2, 2, 0, 1>>)
  \o pack_4byte_IEEE(<<0, 0, -1>>) \o pack_4byte_IEEE(<<9, 9, 9>>)
  \o pack_4byte_IEEE(<<1, 1, 2>>)
  \o pack_4byte_IEEE(<<1, 2, 1, 2>>)
  \o pack_4byte_IEEE(<<1, 0>>) \o pack_4byte_IEEE(<<2, 2>>)
  \o pack_4byte_Integer(<<1, 0>>) \o pack_4byte_Integer(<<1, 1>>)

CutFile ==
  pack_4byte_Integer(<<2, 1, 2, 1>>)
  \o pack_4byte_IEEE(<<0, 0, 0>>) \o pack_4byte_IEEE(<<0, 1, 1>>)
  \o pack_4byte_IEEE(<<1, 1, 1>>)

GivenFiles == (<<"old", "vm">> :> OldFile) @@ (<<"cut", "vm">> :> CutFile)

InitIO ==
  /\ init_model(<<2, 1, 2>>, <<0, 0, 0>>, <<1, 1, 1>>)
  /\ arrays = << >>
  /\ grids = << >>
  /\ files = GivenFiles

\* a grid value that has no 32-bit representation among the values assigned
WideValues ==
  { [shape |-> <<2, 1, 2>>,
     data |-> [n \in Nodes3(<<2, 1, 2>>) |->
                 IF n = <<0, 0, 0>> THEN 2 ^ 24 + 1 ELSE 1]] }

IOSetSl ==
  /\ files = GivenFiles
  /\ \E value \in WideValues : set_sl(value)

IOInsert ==
  /\ files = GivenFiles
  /\ \E d \in {0, MaxDepth} :
       insert_interface(Scalar(d), Scalar(1), Scalar(-1), None)

\* one file is written, again and again, next to the given ones
IOWrite ==
  \E target \in {Path("m", "vm"), Path("m", "bin"), Path("m", "dat"),
                 Handle("m", "vm")},
     fmt \in {None, Fmt("vm"), Fmt("xyz")} :
    /\ DOMAIN files \subseteq DOMAIN GivenFiles \cup {file_of(target)}
    /\ write(target, fmt)

IORead ==
  \E target \in {Path("m", "vm"), Path("m", "bin"), Path("m", "dat"),
                 Handle("m", "vm"), Path("old", "vm"), Path("cut", "vm")},
     a \in {<<None, FALSE>>, <<None, TRUE>>, <<Fmt("vm"), FALSE>>,
            <<Fmt("xyz"), FALSE>>} :
    read(target, a[1], a[2])

NextIO == IOSetSl \/ IOInsert \/ IOWrite \/ IORead

SpecIO == InitIO /\ [][NextIO]_vars

(***************************************************************************)
(* exceptions.py: VMErrorChecking                                          *)
(*                                                                         *)
(* The arrays of the model are numpy arrays (the setters of rf, jp, ir and *)
(* ij pass their value through numpy.atleast_1d), so the two tests on the  *)
(* type of sl and rf find nothing here.  NaN and Inf stand for the two     *)
(* floating-point values that are not numbers of the model.                *)
(***************************************************************************)
NaN == 1000001

Inf == 1000002

\* len(numpy.nonzero(test(arr))[0]) for an array given as a function
count(arr, v) == Cardinality({n \in DOMAIN arr : arr[n] = v})

\* the same for an array of surfaces
count_surfaces(arr, v) ==
  IF arr = << >> THEN 0
  ELSE Cardinality({p \in (1 .. Len(arr)) \X DOMAIN arr[1] :
                      arr[p[1]][p[2]] = v})

\* rf.shape != (nr, nx, ny), where nr is len(rf)
rf_shape_mismatch ==
  \E k \in 1 .. Len(rf) : DOMAIN rf[k] # Nodes(nx, ny)

\* VMErrorChecking._check_grid(raise_error=False, warn=False)
check_grid ==
  (IF Len(shape) # 3 THEN <<"Grid must be 3D">> ELSE << >>)
  \o (IF count(sl, NaN) > 0 THEN <<"NaN values">> ELSE << >>)
  \o (IF count(sl, 0) > 0 THEN <<"zero slowness values">> ELSE << >>)

\* VMErrorChecking._check_interfaces(raise_error=False, warn=False)
check_interfaces ==
  IF nr = 0 THEN << >>
  ELSE (IF rf_shape_mismatch
          THEN <<"Mismatch between interface and grid shapes">> ELSE << >>)
       \o (IF count_surfaces(rf, NaN) > 0 THEN <<"NaN values">> ELSE << >>)
       \o (IF count_surfaces(rf, Inf) # 0
             THEN <<"infinite values">> ELSE << >>)

\* VMErrorChecking.verify, called on the model.  With raise_error set the
\* statement VMError(msg) builds the exception and drops it.
verify(raise_error, warn) ==
  LET n == Len(check_grid) + Len(check_interfaces)
  IN  /\ last' = [op |-> "verify", raise_error |-> raise_error,
                  warn |-> warn,
                  err |-> "none",
                  warned |-> n # 0 /\ ~raise_error /\ warn,
                  ret |-> (n = 0), n |-> n]
      /\ UNCHANGED <<shape, origin, spacing, sl, rf, jp, ir, ij, others>>

\* vm.verify(): class VM(VMIO, VMTools, VMPlotter) has no such attribute
vm_verify ==
  /\ last' = [op |-> "vm.verify", err |-> "AttributeError"]
  /\ UNCHANGED <<shape, origin, spacing, sl, rf, jp, ir, ij, others>>

(***************************************************************************)
(* SpecVerify: assignments to sl, rf and jp, then verify.                  *)
(***************************************************************************)
\* a grid of ones with the value v at node n
GridWith(shp, n, v) ==
  [shape |-> shp, data |-> [m \in Nodes3(shp) |-> IF m = n THEN v ELSE 1]]

VerifyGrids ==
  { GridWith(shp, <<0, 0, 1>>, v) :
      shp \in {<<1, 1, 2>>, <<2, 1, 2>>}, v \in {1, 0, NaN} }
  \cup { [shape |-> <<2, 1>>, data |-> Full(2, 1, 1)] }

VerifySurfaces ==
  { [shape |-> <<0>>, data |-> << >>] }
  \cup { [shape |-> <<1, a, 1>>,
           data |-> <<[Full(a, 1, 1) EXCEPT ![<<0, 0>>] = v]>>] :
           a \in {1, 2}, v \in {1, NaN, Inf} }

VerifyJumps ==
  { [shape |-> <<0>>, data |-> << >>] }
  \cup { [shape |-> <<1, a, 1>>, data |-> <<Full(a, 1, 1)>>] : a \in {1, 2} }

InitVerify ==
  \E shp \in {<<1, 1, 2>>, <<2, 1, 2>>} :
    init_model(shp, <<0, 0, 0>>, <<1, 1, 1>>) /\ no_others

VerifySetSl == \E value \in VerifyGrids : set_sl(value)

VerifySetRf == \E value \in VerifySurfaces : set_rf(value)

VerifySetJp == \E value \in VerifyJumps : set_jp(value)

Verify ==
  \E raise_error \in BOOLEAN, warn \in BOOLEAN : verify(raise_error, warn)

VMVerify == vm_verify

NextVerify ==
  \/ VerifySetSl
  \/ VerifySetRf
  \/ VerifySetJp
  \/ Verify
  \/ VMVerify

SpecVerify == InitVerify /\ [][NextVerify]_vars

(***************************************************************************)
(* tools.py: define_constant_layer_gradient                                *)
(*                                                                         *)
(* The grid holds slowness, the reciprocal of velocity.  In SpecGradient   *)
(* slowness is held as a multiple of 1 / SlownessUnit, and a call is taken *)
(* only when each of its reciprocals is exact; the reciprocal of 0 is Inf  *)
(* and that of Inf is 0, as in numpy.                                      *)
(***************************************************************************)
SlownessUnit == 60

exact(v) == v \in {0, Inf} \/ (v > 0 /\ SlownessUnit % v = 0)

\* 1. / v
reciprocal(v) ==
  IF v = 0 THEN Inf ELSE IF v = Inf THEN 0 ELSE SlownessUnit \div v

\* a + b and a * b on velocities, one of which may be Inf
vplus(a, b) == IF a = Inf \/ b = Inf THEN Inf ELSE a + b

\* VM.xrange2i / VM.yrange2i
xrange2i(xmin, xmax) ==
  LET lo == IF xmin = None THEN r1[1] ELSE Max({r1[1], xmin.val})
      hi == IF xmax = None THEN r2[1]
            ELSE CHOOSE m \in {r2[1], xmax.val} :
                   \A e \in {r2[1], xmax.val} : m <= e
  IN  x2i(lo) .. x2i(hi)

yrange2i(ymin, ymax) ==
  LET lo == IF ymin = None THEN r1[2] ELSE Max({r1[2], ymin.val})
      hi == IF ymax = None THEN r2[2]
            ELSE CHOOSE m \in {r2[2], ymax.val} :
                   \A e \in {r2[2], ymax.val} : m <= e
  IN  y2i(lo) .. y2i(hi)

\* z = self.grid.z[iz0:iz1] - self.grid.z[iz0], at the sample iz
gradient_depth_index(iz, iz0) == iz - iz0

gradient_depth(iz, iz0) == grid_z(iz) - grid_z(iz0)

\* _v0 for one column
top_velocity(v0, ix, iy, iz0) ==
  IF v0 = None
    THEN IF iz0 = 0 THEN 0 ELSE reciprocal(sl[<<ix, iy, iz0 - 1>>])
    ELSE v0.val

\* the velocity given to the sample n, for the bounds z0 and z1 of the layer
gradient_velocity(n, z0, z1, dvdz, v0) ==
  LET iz0 == z2i(z0[<<n[1], n[2]>>])
  IN  vplus(top_velocity(v0, n[1], n[2], iz0),
            gradient_depth(n[3], iz0) * dvdz)

\* the samples the loops assign to
gradient_samples(z0, z1, xmin, xmax, ymin, ymax) ==
  {n \in Nodes3(shape) :
     /\ n[1] \in xrange2i(xmin, xmax)
     /\ n[2] \in yrange2i(ymin, ymax)
     /\ n[3] >= z2i(z0[<<n[1], n[2]>>])
     /\ n[3] < z2i(z1[<<n[1], n[2]>>]) + 1}

define_constant_layer_gradient(ilyr, dvdz, v0, xmin, xmax, ymin, ymax) ==
  IF (ilyr >= 0) /\ (ilyr <= nr)
  THEN LET z0 == layer_top(ilyr)
           z1 == layer_bottom(ilyr)
           S  == gradient_samples(z0, z1, xmin, xmax, ymin, ymax)
       IN  /\ \A n \in S : exact(gradient_velocity(n, z0, z1, dvdz, v0))
           /\ v0 = None =>
                \A n \in S : n[3] > 0 => exact(sl[<<n[1], n[2], n[3] - 1>>])
           /\ sl' = [n \in DOMAIN sl |->
                       IF n \in S
                       THEN reciprocal(gradient_velocity(n, z0, z1, dvdz, v0))
                       ELSE sl[n]]
           /\ last' = [op |-> "define_constant_layer_gradient",
                       ilyr |-> ilyr, dvdz |-> dvdz, v0 |-> v0,
                       xmin |-> xmin, xmax |-> xmax,
                       ymin |-> ymin, ymax |-> ymax,
                       z0 |-> z0, z1 |-> z1, err |-> "none"]
           /\ UNCHANGED <<shape, origin, spacing, rf, jp, ir, ij, others>>
  ELSE /\ last' = [op |-> "define_constant_layer_gradient",
                   ilyr |-> ilyr, dvdz |-> dvdz, v0 |-> v0,
                   err |-> "AssertionError"]
       /\ UNCHANGED <<shape, origin, spacing, sl, rf, jp, ir, ij, others>>

(***************************************************************************)
(* SpecGradient: interfaces are inserted into a new model, then gradients  *)
(* are defined in its layers.                                              *)
(***************************************************************************)
InitGradient ==
  \E g \in {<<<<1, 1, 3>>, 1>>, <<<<2, 1, 2>>, 2>>} :
    init_model(g[1], <<0, 0, 0>>, <<1, 1, g[2]>>) /\ no_others

GradientInsert ==
  /\ \A n \in DOMAIN sl : sl[n] = 0
  /\ \E a_rf \in {Scalar(d) : d \in Depths} \cup {Array(Slope(0, MaxDepth))} :
       insert_interface(a_rf, None, None, None)

Gradient ==
  \E ilyr \in 0 .. MaxNr + 1, dvdz \in {0, 1},
     v0 \in {None, Scalar(1), Scalar(2)} :
    define_constant_layer_gradient(ilyr, dvdz, v0, None, None, None, None)

NextGradient == GradientInsert \/ Gradient

SpecGradient == InitGradient /\ [][NextGradient]_vars

(***************************************************************************)
(* tools.py: define_stretched_layer_velocities and                         *)
(* define_constant_layer_velocity                                          *)
(*                                                                         *)
(* Velocity lists of one or two values are modelled, with kind = 'linear'. *)
(* A call with two values is taken only where the layer has a positive     *)
(* thickness in the columns it writes, the end velocities are finite and   *)
(* the interpolated velocities and their reciprocals are exact.            *)
(***************************************************************************)
\* iz0, iz1 = self.grid.z2i((z0[ix, iy], z1[ix, iy])); iz1 += 1
stretch_iz0(z0, c) == z2i(z0[c])

stretch_iz1_wide(z1, c) == z2i(z1[c]) + 2

stretch_iz1(z1, c) == z2i(z1[c]) + 1

\* len(z) == 0 for z = self.grid.z[iz0:iz1]
in_pinchout(z0, z1, c) == stretch_iz1(z1, c) <= stretch_iz0(z0, c)

\* the indices max(iz0 - 1, 0) and min(iz1 + 1, self.nx)
index_above(z0, c) == Max({stretch_iz0(z0, c) - 1, 0})

index_below(z1, c) ==
  CHOOSE m \in {stretch_iz1(z1, c) + 1, nx} :
    \A e \in {stretch_iz1(z1, c) + 1, nx} : m <= e

\* self.sl[ix, iy, min(iz1 + 1, self.nx)] is read past the end of the column
stretch_index_error(vel, z1, c) ==
  /\ Len(vel) > 1
  /\ vel[2] = None
  /\ index_below(z1, c) >= nz

\* _vel for one column
stretch_vel(vel, z0, z1, c) ==
  [k \in DOMAIN vel |->
     IF k = 1 /\ vel[1] = None
       THEN reciprocal(sl[<<c[1], c[2], index_above(z0, c)>>])
     ELSE IF k = 2 /\ vel[2] = None
       THEN reciprocal(sl[<<c[1], c[2], index_below(z1, c)>>])
     ELSE vel[k].val]

\* v = zv(z) at the sample n: zi and vi are the two bounds of the layer with
\* the two velocities, extended to z[0] and z[-1] with the same velocities
stretch_velocity(n, vel, z0, z1) ==
  LET c  == <<n[1], n[2]>>
      ve == stretch_vel(vel, z0, z1, c)
      z  == grid_z(n[3])
  IN  IF Len(vel) = 1 THEN ve[1]
      ELSE IF z <= z0[c] THEN ve[1]
      ELSE IF z >= z1[c] THEN ve[2]
      ELSE ve[1] + ((ve[2] - ve[1]) * (z - z0[c])) \div (z1[c] - z0[c])

\* the columns the two loops assign to before they end: those that are not
\* in a pinchout and come before the first column that raises IndexError
stretch_columns(vel, z0, z1, xmin, xmax, ymin, ymax) ==
  LET live    == {c \in xrange2i(xmin, xmax) \X yrange2i(ymin, ymax) :
                    ~in_pinchout(z0, z1, c)}
      failing == {c \in live : stretch_index_error(vel, z1, c)}
  IN  {c \in live :
         \A f \in failing : c[1] < f[1] \/ (c[1] = f[1] /\ c[2] < f[2])}

stretch_raises(vel, z0, z1, xmin, xmax, ymin, ymax) ==
  \E c \in xrange2i(xmin, xmax) \X yrange2i(ymin, ymax) :
    ~in_pinchout(z0, z1, c) /\ stretch_index_error(vel, z1, c)

\* the samples self.sl[ix, iy, iz0:iz1] of the columns assigned to
stretch_samples(cols, z0, z1) ==
  {n \in Nodes3(shape) :
     /\ <<n[1], n[2]>> \in cols
     /\ n[3] >= stretch_iz0(z0, <<n[1], n[2]>>)
     /\ n[3] < stretch_iz1(z1, <<n[1], n[2]>>)}

\* the calls the model takes
stretch_modelled(S, vel, z0, z1) ==
  \A n \in S :
    LET c  == <<n[1], n[2]>>
        ve == stretch_vel(vel, z0, z1, c)
    IN  /\ \A k \in DOMAIN vel :
             vel[k] = None =>
               exact(sl[<<c[1], c[2],
                          IF k = 1 THEN index_above(z0, c)
                                   ELSE index_below(z1, c)>>])
        /\ Len(vel) = 2 =>
             /\ z0[c] < z1[c]
             /\ ve[1] # Inf /\ ve[2] # Inf
             /\ ((ve[2] - ve[1]) * (grid_z(n[3]) - z0[c]))
                  % (z1[c] - z0[c]) = 0
        /\ exact(stretch_velocity(n, vel, z0, z1))

define_stretched_layer_velocities(ilyr, vel, xmin, xmax, ymin, ymax) ==
  IF (ilyr >= 0) /\ (ilyr <= nr)
  THEN LET z0   == layer_top(ilyr)
           z1   == layer_bottom(ilyr)
           cols == stretch_columns(vel, z0, z1, xmin, xmax, ymin, ymax)
           S    == stretch_samples(cols, z0, z1)
       IN  /\ stretch_modelled(S, vel, z0, z1)
           /\ sl' = [n \in DOMAIN sl |->
                       IF n \in S
                       THEN reciprocal(stretch_velocity(n, vel, z0, z1))
                       ELSE sl[n]]
           /\ last' = [op |-> "define_stretched_layer_velocities",
                       ilyr |-> ilyr, vel |-> vel,
                       xmin |-> xmin, xmax |-> xmax,
                       ymin |-> ymin, ymax |-> ymax,
                       z0 |-> z0, z1 |-> z1,
                       err |-> IF stretch_raises(vel, z0, z1,
                                                 xmin, xmax, ymin, ymax)
                               THEN "IndexError" ELSE "none"]
           /\ UNCHANGED <<shape, origin, spacing, rf, jp, ir, ij, others>>
  ELSE /\ last' = [op |-> "define_stretched_layer_velocities",
                   ilyr |-> ilyr, vel |-> vel,
                   xmin |-> xmin, xmax |-> xmax,
                   ymin |-> ymin, ymax |-> ymax,
                   err |-> "AssertionError"]
       /\ UNCHANGED <<shape, origin, spacing, sl, rf, jp, ir, ij, others>>

\* self.define_stretched_layer_velocities(ilyr, [vel], ...)
define_constant_layer_velocity(ilyr, vel, xmin, xmax, ymin, ymax) ==
  define_stretched_layer_velocities(ilyr, <<vel>>, xmin, xmax, ymin, ymax)

(***************************************************************************)
(* SpecStretch: interfaces are inserted into a new model, then its layers  *)
(* are given velocities.                                                   *)
(***************************************************************************)
StretchDepths == {Scalar(1), Scalar(MaxDepth + 1)}

StretchLists == {<<None, None>>, <<Scalar(1), None>>}

StretchLimits == {<<None, None>>, <<Scalar(1), None>>, <<Scalar(2), None>>}

InitStretch ==
  \E g \in {<<<<1, 1, 3>>, 1>>, <<<<2, 1, 2>>, 2>>} :
    init_model(g[1], <<0, 0, 0>>, <<g[2], 1, 1>>) /\ no_others

StretchInsert ==
  /\ \A n \in DOMAIN sl : sl[n] = 0
  /\ \E a_rf \in StretchDepths : insert_interface(a_rf, None, None, None)

Stretch ==
  \E ilyr \in 0 .. MaxNr, vel \in StretchLists, x \in StretchLimits :
    define_stretched_layer_velocities(ilyr, vel, x[1], x[2], None, None)

Constant ==
  \E ilyr \in 0 .. MaxNr, x \in StretchLimits :
    define_constant_layer_velocity(ilyr, Scalar(3), x[1], x[2], None, None)

StretchGradient ==
  \E ilyr \in 0 .. MaxNr, x \in StretchLimits :
    define_constant_layer_gradient(ilyr, 0, Scalar(1), x[1], x[2], None, None)

NextStretch == StretchInsert \/ Stretch \/ Constant \/ StretchGradient

SpecStretch == InitStretch /\ [][NextStretch]_vars

(***************************************************************************)
(* tools.py: fix_pinchouts                                                 *)
(***************************************************************************)
\* np.minimum and np.maximum of two surfaces
np_minimum(a, b) == [c \in DOMAIN a |-> IF a[c] <= b[c] THEN a[c] ELSE b[c]]

np_maximum(a, b) == [c \in DOMAIN a |-> IF a[c] >= b[c] THEN a[c] ELSE b[c]]

\* the first loop, from the pair whose lower surface is the i-th of the
\* stack r: each pair in turn is put in order, node by node
RECURSIVE put_in_order(_, _)
put_in_order(r, i) ==
  IF i > Len(r) THEN r
  ELSE put_in_order([r EXCEPT ![i - 1] = np_minimum(r[i - 1], r[i]),
                              ![i] = np_maximum(r[i - 1], r[i])], i + 1)

\* self.rf[ir][idx] += min_dz - dz[idx] for one pair of surfaces
push_surface(top, bot, min_dz) ==
  [c \in DOMAIN bot |->
     IF bot[c] - top[c] < min_dz
       THEN bot[c] + (min_dz - (bot[c] - top[c]))
       ELSE bot[c]]

\* the second loop, from the pair whose lower surface is the i-th one
push_down_as_given(r, i, min_dz) ==
  [k \in DOMAIN r |->
     IF k < i THEN r[k] ELSE push_surface(r[k - 1], r[k], min_dz)]

RECURSIVE push_down(_, _, _)
push_down(r, i, min_dz) ==
  IF i > Len(r) THEN r
  ELSE push_down([r EXCEPT ![i] = push_surface(r[i - 1], r[i], min_dz)],
                 i + 1, min_dz)

fix_pinchouts(min_dz) ==
  LET m == IF min_dz = None THEN dz ELSE min_dz.val
      r == push_down(put_in_order(rf, 2), 2, m)
  IN  /\ rf' = r
      /\ last' = [op |-> "fix_pinchouts", min_dz |-> min_dz,
                  changed |-> r # rf, err |-> "none"]
      /\ UNCHANGED <<shape, origin, spacing, sl, jp, ir, ij, others>>

(***************************************************************************)
(* SpecPinch: the interfaces of a new model are assigned, in any order and *)
(* crossing or not, then fix_pinchouts is called.                          *)
(***************************************************************************)
PinchSurfaces == [Nodes(2, 1) -> 0 .. 2]

PinchStacks ==
  UNION {[1 .. n -> PinchSurfaces] : n \in 0 .. 3}

InitPinch == init_model(<<2, 1, 2>>, <<0, 0, 0>>, <<1, 1, 1>>) /\ no_others

PinchSetRf ==
  \E r \in PinchStacks :
    set_rf([shape |-> <<Len(r), 2, 1>>, data |-> r])

FixPinchouts ==
  \E min_dz \in {None, Scalar(0), Scalar(2)} : fix_pinchouts(min_dz)

NextPinch == PinchSetRf \/ FixPinchouts

SpecPinch == InitPinch /\ [][NextPinch]_vars

(***************************************************************************)
(* rayfan.py: Rayfan.read                                                  *)
(*                                                                         *)
(* A rayfan file is [words |-> its whole 4-byte values, tail |-> the       *)
(* number of bytes after them]; its values are integers, the ones read as  *)
(* floats too.  The outcome of a read tells how many of the seven per-ray  *)
(* arrays and how many paths were unpacked.                                *)
(***************************************************************************)
MaxRays == 2
MaxPath == 1

\* os.fstat(file.fileno()).st_size
filesize(f) == 4 * Len(f.words) + f.tail

\* unpack(fmt, file.read(4 * n)) with the file pointer after p values:
\* struct.error unless the file holds n more values
unpacks(f, p, n) == p + n <= Len(f.words)

\* the number of values in the first j paths
RECURSIVE path_values(_, _)
path_values(lens, j) ==
  IF j = 0 THEN 0 ELSE path_values(lens, j - 1) + 3 * lens[j]

\* data_needed > data_left or data_needed < 0
too_little_data(nrays, nsize, data_left) ==
  LET data_needed == 7 * nrays + 3 * nsize
  IN  data_needed > data_left \/ data_needed < 0

rayfan_read(f, version) ==
  IF ~unpacks(f, 0, 3)
  THEN [err |-> "struct.error", arrays |-> 0, paths |-> 0]
  ELSE
    LET nrays  == f.words[2]
        nsize  == f.words[3]
        pos    == 12
        static == IF version > 1 THEN 1 ELSE 0
        first  == 3 + static
        arrs   == Max({k \in 0 .. 7 : unpacks(f, first, k * nrays)})
        lens   == [i \in 1 .. nrays |-> f.words[first + 3 * nrays + i]]
        got    == Max({j \in 0 .. nrays :
                        unpacks(f, first + 7 * nrays, path_values(lens, j))})
    IN  IF too_little_data(nrays, nsize, filesize(f) - pos)
          THEN [err |-> "RayfanReadingError", arrays |-> 0, paths |-> 0]
        ELSE IF ~unpacks(f, 3, static)
          THEN [err |-> "struct.error", arrays |-> 0, paths |-> 0]
        ELSE IF arrs < 7
          THEN [err |-> "struct.error", arrays |-> arrs, paths |-> 0]
        ELSE IF got < nrays
          THEN [err |-> "struct.error", arrays |-> 7, paths |-> got]
        ELSE [err |-> "none", arrays |-> 7, paths |-> nrays]

\* Rayfan(file, version=version)
Rayfan(version) ==
  LET f == files[1]
      r == rayfan_read(f, version)
  IN  /\ last' = [op |-> "Rayfan.read", version |-> version,
                  err |-> r.err, arrays |-> r.arrays, paths |-> r.paths]
      /\ UNCHANGED <<shape, origin, spacing, sl, rf, jp, ir, ij, others>>

(***************************************************************************)
(* SpecRays: one rayfan file, whole or cut short, with a header that       *)
(* agrees with its paths or not, is read.                                  *)
(***************************************************************************)
\* the values of a whole version-2 rayfan with the given header and paths
rayfan_values(nrays, nsize, lens) ==
  <<0, nrays, nsize, 0>>
    \o [k \in 1 .. 3 * nrays |-> 0]
    \o lens
    \o [k \in 1 .. 3 * nrays + path_values(lens, nrays) |-> 0]

\* the first size bytes of a file of these values
cut(values, size) ==
  [words |-> SubSeq(values, 1, size \div 4), tail |-> size % 4]

RayfanFiles ==
  UNION {{cut(values, size) : size \in 12 .. 4 * Len(values)} :
           values \in {rayfan_values(Len(lens), nsize, lens) :
                         lens \in UNION {[1 .. n -> 0 .. MaxPath] :
                                           n \in 0 .. MaxRays},
                         nsize \in 0 .. MaxRays * MaxPath}}

InitRays ==
  /\ init_model(<<1, 1, 1>>, <<0, 0, 0>>, <<1, 1, 1>>)
  /\ arrays = << >>
  /\ grids = << >>
  /\ \E f \in RayfanFiles : files = <<f>>

ReadRayfan == \E version \in {1, 2} : Rayfan(version)

NextRays == ReadRayfan

SpecRays == InitRays /\ [][NextRays]_vars

(***************************************************************************)
(* Properties of insert_interface, under Spec.                             *)
(***************************************************************************)
\* a step of insert_interface that returned
Inserted == last'.op = "insert_interface" /\ last'.err = "none"

\* the surface an argument stands for on the grid of the model
SurfaceOf(a) ==
  IF a.kind = "scalar" THEN [n \in Nodes(shape[1], shape[2]) |-> a.val]
  ELSE a.val

Highest(s) ==
  CHOOSE m \in {s[n] : n \in DOMAIN s} : \A n \in DOMAIN s : s[n] <= m

\* the array without its element k (0-based)
Without(arr, k) ==
  [i \in 1 .. Len(arr) - 1 |-> IF i <= k THEN arr[i] ELSE arr[i + 1]]

Uniform(s, c) == \A n \in DOMAIN s : s[n] = c

\* C1: insert_interface adds exactly one interface; the interfaces that
\* existed keep their depth and jump surfaces, value for value and in the
\* same order; of the rest of the model only ir and ij may change.
C1_InsertKeepsExisting ==
  [][Inserted =>
       /\ Len(rf') = Len(rf) + 1
       /\ \E k \in 0 .. Len(rf) :
            /\ Without(rf', k) = rf
            /\ Without(jp', k) = jp
       /\ UNCHANGED <<shape, origin, spacing, sl>>]_vars

\* an interface was inserted above an existing one, whose masks were renumbered
C1_Witness ==
  /\ last.op = "insert_interface"
  /\ last.err = "none"
  /\ Len(rf) >= 2
  /\ last.ret < Len(rf) - 1
  /\ \E n \in DOMAIN ir[Len(ir)] : ir[Len(ir)][n] = Len(ir) - 1

\* C2 as stated: the new interface goes to position k, the number of existing
\* interfaces whose maximum depth is strictly smaller than that of the new
\* surface.
C2_PositionStrict ==
  [][Inserted =>
       LET k == Cardinality({i \in 1 .. Len(rf) :
                               Highest(rf[i]) < Highest(SurfaceOf(last'.rf))})
       IN  last'.ret = k /\ rf'[k + 1] = SurfaceOf(last'.rf)]_vars

\* C2 as amended: the new interface goes to position k, the number of
\* existing interfaces whose maximum depth is smaller than or equal to that
\* of the new surface (it goes below the interfaces of the same maximum).
C2_PositionAtMost ==
  [][Inserted =>
       LET k == Cardinality({i \in 1 .. Len(rf) :
                               Highest(rf[i]) <= Highest(SurfaceOf(last'.rf))})
       IN  last'.ret = k /\ rf'[k + 1] = SurfaceOf(last'.rf)]_vars

\* an interface was inserted below one of the same maximum depth
C2_Witness ==
  /\ last.op = "insert_interface"
  /\ last.err = "none"
  /\ last.ret >= 1
  /\ Highest(rf[last.ret]) = Highest(rf[last.ret + 1])

\* C4: after every insert_interface, the first one included: with jp left
\* out the new interface's jump is 0 at every node, with ir (ij) left out its
\* depth (jump) mask is the returned index at every node.
C4_Defaults ==
  [][Inserted =>
       LET r == last'.ret
       IN  /\ last'.jp.kind = "none" => Uniform(jp'[r + 1], 0)
           /\ last'.ir.kind = "none" => Uniform(ir'[r + 1], r)
           /\ last'.ij.kind = "none" => Uniform(ij'[r + 1], r)]_vars

\* C5: insert_interface returns the index r of the new interface: rf[r] is
\* the depth given (a scalar at every node), jp[r] the jump given, ir[r] and
\* ij[r] the masks given, whatever the stack was, the empty one included.
C5_StoredAsGiven ==
  [][Inserted =>
       LET r == last'.ret
       IN  /\ rf'[r + 1] = SurfaceOf(last'.rf)
           /\ last'.jp.kind # "none" => jp'[r + 1] = SurfaceOf(last'.jp)
           /\ last'.ir.kind # "none" => ir'[r + 1] = SurfaceOf(last'.ir)
           /\ last'.ij.kind # "none" => ij'[r + 1] = SurfaceOf(last'.ij)]_vars

\* C6: get_layer_bounds(l) returns exactly when 0 <= l <= nr, and then the
\* top is the z of the first grid node everywhere if l = 0 and rf[l - 1]
\* otherwise, the bottom the z of the last grid node everywhere if l = nr and
\* rf[l] otherwise; a call that fails, like one that returns, changes nothing.
C6_LayerBounds ==
  [][last'.op = "get_layer_bounds" =>
       LET l == last'.ilyr
           flat(c) == [n \in Nodes(shape[1], shape[2]) |-> c]
       IN  /\ UNCHANGED <<shape, origin, spacing, sl, rf, jp, ir, ij>>
           /\ last'.err = "none" <=> (0 <= l /\ l <= Len(rf))
           /\ last'.err = "none" =>
                /\ last'.z0 = IF l = 0 THEN flat(origin[3]) ELSE rf[l]
                /\ last'.z1 = IF l = Len(rf)
                              THEN flat(origin[3] + spacing[3] * (shape[3] - 1))
                              ELSE rf[l + 1]]_vars

\* the bounds of the deepest layer of a model with interfaces were returned
C6_Witness ==
  /\ last.op = "get_layer_bounds"
  /\ last.err = "none"
  /\ Len(rf) >= 1
  /\ last.ilyr = Len(rf)
  /\ last.z0 = rf[Len(rf)]
  /\ last.z1 # last.z0

(***************************************************************************)
(* Properties under SpecDefaults.                                          *)
(***************************************************************************)
\* C3: after any sequence of insert_interface calls made without jp, ir and
\* ij, the depth mask and the jump mask of every interface i are i at every
\* node.
C3_MasksAreIndices ==
  /\ Len(ir) = Len(rf)
  /\ Len(ij) = Len(rf)
  /\ \A i \in 0 .. Len(rf) - 1 :
       Uniform(ir[i + 1], i) /\ Uniform(ij[i + 1], i)

\* an interface was inserted above another one, which was renumbered
C3_Witness ==
  /\ last.op = "insert_interface"
  /\ last.err = "none"
  /\ Len(rf) >= 2
  /\ last.ret = 0
  /\ Uniform(ir[2], 1)

WrongHorizontal(value) ==
  /\ Len(value.shape) >= 3
  /\ <<value.shape[2], value.shape[3]>> # <<shape[1], shape[2]>>

Rejected ==
  /\ last'.err # "none"
  /\ UNCHANGED <<shape, origin, spacing, sl, rf, jp, ir, ij>>

\* C8 as stated: assigning rf, jp, ir or ij an array whose horizontal shape
\* is not (nx, ny), or r1 or r2 a value that has not 3 elements, raises an
\* error and changes nothing; assigning nx, ny, nz or nr is always rejected.
C8_RejectsAnyWrongShape ==
  [][last'.op = "set" =>
       /\ (last'.attr \in {"rf", "jp", "ir", "ij"}
           /\ WrongHorizontal(last'.value)) => Rejected
       /\ (last'.attr \in {"r1", "r2"} /\ Len(last'.value) # 3) => Rejected
       /\ last'.attr \in {"nx", "ny", "nz", "nr"} => Rejected]_vars

\* C8 as amended: the same, for an array that is not empty; an empty array
\* is stored whatever its shape.
C8_RejectsWrongShape ==
  [][last'.op = "set" =>
       /\ (last'.attr \in {"rf", "jp", "ir", "ij"}
           /\ last'.value.shape[1] > 0
           /\ WrongHorizontal(last'.value)) => Rejected
       /\ (last'.attr \in {"r1", "r2"} /\ Len(last'.value) # 3) => Rejected
       /\ last'.attr \in {"nx", "ny", "nz", "nr"} => Rejected]_vars

\* an array of one surface of a wrong shape was assigned to a model that has
\* interfaces, and was rejected
C8_Witness ==
  /\ last.op = "set"
  /\ last.attr = "jp"
  /\ last.value.shape[1] > 0
  /\ WrongHorizontal(last.value)
  /\ last.err = "ValueError"
  /\ Len(jp) >= 1

(***************************************************************************)
(* Properties under SpecJumps and SpecGrid.                                *)
(***************************************************************************)
\* C9: remove_jumps(sel) right after apply_jumps(sel) gives every grid value
\* back, and neither call changes rf, jp, ir or ij.
C9_RemoveUndoesApply ==
  [][/\ last'.op \in {"apply_jumps", "remove_jumps"} =>
          UNCHANGED <<rf, jp, ir, ij, shape, origin, spacing>>
     /\ (last.op = "apply_jumps" /\ last'.op = "remove_jumps"
         /\ last'.iref = last.iref) =>
          sl' = last.before]_vars

\* jumps that changed the grid were applied and then removed
C9_Witness ==
  /\ last.op = "remove_jumps"
  /\ last.after_apply
  /\ last.before # last.start
  /\ sl = last.start
  /\ \E n \in DOMAIN sl : sl[n] # 0

\* C10: along every axis the coordinate of grid node i is converted to i, and
\* any coordinate is converted to the index of a grid node.
C10_NodeRoundTrip ==
  last.op = "coord2index" =>
    LET n == shape[last.axis]
        x0 == origin[last.axis]
        d == spacing[last.axis]
    IN  /\ last.ret \in 0 .. n - 1
        /\ \A i \in 0 .. n - 1 : last.x = x0 + d * i => last.ret = i

\* the coordinate of the last node of an axis with several nodes was converted
C10_Witness ==
  /\ last.op = "coord2index"
  /\ shape[last.axis] >= 3
  /\ spacing[last.axis] >= 2
  /\ origin[last.axis] # 0
  /\ last.x = origin[last.axis] + spacing[last.axis] * (shape[last.axis] - 1)
  /\ last.ret = shape[last.axis] - 1

(***************************************************************************)
(* Properties of the grids of the caller, under SpecObjects.               *)
(***************************************************************************)
\* an arithmetic operation that returned, on a scalar or on a grid of the
\* shape of the receiver
ArithStep ==
  /\ last'.op \in ArithOps
  /\ last'.err = "none"
  /\ last'.other.kind = "grid" =>
       grids[last'.other.val].shape = grids[last'.self].shape

\* z is the result of the operation on x and y
ResultOf(op, x, y, z) ==
  /\ op = "add" => z = x + y
  /\ op = "sub" => z = x - y
  /\ op = "mul" => z = x * y
  /\ op = "truediv" => z * y = x

\* the receiver holds the elementwise results and is what the call returns;
\* no grid changes its array, shape, origin or spacing
ArithInPlace ==
  LET g == last'.self
      o == last'.other
      a == grids[g].values
  IN  /\ last'.ret = g
      /\ grids' = grids
      /\ DOMAIN arrays' = DOMAIN arrays
      /\ arrays'[a].shape = arrays[a].shape
      /\ \A k \in DOMAIN arrays[a].data :
           ResultOf(last'.op, arrays[a].data[k],
                    IF o.kind = "grid"
                    THEN arrays[grids[o.val].values].data[k] ELSE o.val,
                    arrays'[a].data[k])

\* the copy is a new grid equal to the original, on an array that no grid
\* had and that no array was, and nothing else changes
CopyIsFresh ==
  LET g == last'.self
      h == last'.ret
  IN  /\ DOMAIN grids' = DOMAIN grids \cup {h}
      /\ h \notin DOMAIN grids
      /\ \A i \in DOMAIN grids : grids'[i] = grids[i]
      /\ \A b \in DOMAIN arrays : arrays'[b] = arrays[b]
      /\ grids'[h].values \notin DOMAIN arrays
      /\ arrays'[grids'[h].values].data = arrays[grids[g].values].data
      /\ grids'[h].shape = grids[g].shape
      /\ grids'[h].origin = grids[g].origin
      /\ grids'[h].spacing = grids[g].spacing

\* C11 as stated: an arithmetic operation updates the receiver elementwise in
\* place, returns the receiver, keeps its shape, origin and spacing and
\* leaves the other operand grid unchanged; a copy shares no storage with
\* its original.
C11_OtherOperandUnchanged ==
  [][/\ ArithStep =>
          /\ ArithInPlace
          /\ last'.other.kind = "grid" =>
               arrays'[grids[last'.other.val].values]
                 = arrays[grids[last'.other.val].values]
     /\ last'.op = "copy" => CopyIsFresh]_vars

\* C11 as amended: the same, where the other operand is left unchanged when
\* its values are another array than those of the receiver; every array but
\* that of the receiver is left unchanged.
C11_InPlaceArithmetic ==
  [][/\ ArithStep =>
          /\ ArithInPlace
          /\ \A b \in DOMAIN arrays :
               b # grids[last'.self].values => arrays'[b] = arrays[b]
     /\ last'.op = "copy" => CopyIsFresh]_vars

\* a grid was changed by an operation with its copy, which kept its values
C11_Witness ==
  /\ last.op \in ArithOps
  /\ last.err = "none"
  /\ last.other.kind = "grid"
  /\ last.other.val # last.self
  /\ grids[last.other.val].values > 1
  /\ grids[last.self].values = 1
  /\ arrays[grids[last.other.val].values].data
       # arrays[grids[last.self].values].data

\* C12 as stated: a grid built on a 1D array of length a has the shape
\* (a, 1, 1), on a 2D array of shape (a, b) the shape (a, b, 1), on a 3D
\* array the shape of the array; an origin or a spacing that has not 3
\* elements is rejected.
C12_TrailingDimensions ==
  [][last'.op = "grid_init" =>
       LET s == arrays[last'.values].shape
       IN  IF Len(last'.origin) = 3 /\ Len(last'.spacing) = 3
           THEN /\ last'.err = "none"
                /\ Len(s) = 1 => grids'[last'.ret].shape = <<s[1], 1, 1>>
                /\ Len(s) = 2 => grids'[last'.ret].shape = <<s[1], s[2], 1>>
                /\ Len(s) = 3 => grids'[last'.ret].shape = s
           ELSE last'.err # "none" /\ grids' = grids]_vars

\* C12 as amended: a grid built on a 1D array of length a has the shape
\* (1, a, 1); the rest as stated.
C12_AtLeast3D ==
  [][last'.op = "grid_init" =>
       LET s == arrays[last'.values].shape
       IN  IF Len(last'.origin) = 3 /\ Len(last'.spacing) = 3
           THEN /\ last'.err = "none"
                /\ Len(s) = 1 => grids'[last'.ret].shape = <<1, s[1], 1>>
                /\ Len(s) = 2 => grids'[last'.ret].shape = <<s[1], s[2], 1>>
                /\ Len(s) = 3 => grids'[last'.ret].shape = s
           ELSE last'.err # "none" /\ grids' = grids]_vars

\* a grid was built on a 1D array of two elements
C12_Witness ==
  /\ last.op = "grid_init"
  /\ last.err = "none"
  /\ arrays[last.values].shape = <<2>>
  /\ grids[last.ret].shape = <<1, 2, 1>>

(***************************************************************************)
(* Properties of read and write, under SpecIO.                             *)
(***************************************************************************)
\* every value of the model is written as it is by numpy.float32 / int32
Representable ==
  /\ \A d \in 1 .. 3 :
       /\ np_float32(origin[d]) = origin[d]
       /\ np_float32(spacing[d]) = spacing[d]
  /\ \A n \in DOMAIN sl : np_float32(sl[n]) = sl[n]
  /\ \A k \in 1 .. Len(rf) : \A n \in DOMAIN rf[k] :
       np_float32(rf[k][n]) = rf[k][n]
  /\ \A k \in 1 .. Len(jp) : \A n \in DOMAIN jp[k] :
       np_float32(jp[k][n]) = jp[k][n]

\* a step that reads, in the vm format, the whole file that the step before
\* wrote in the vm format
ReadsBack ==
  /\ last.op = "write"
  /\ last.method = "vm"
  /\ last.target.kind = "path"
  /\ last'.op = "read"
  /\ last'.target.kind = "path"
  /\ file_of(last'.target) = file_of(last.target)
  /\ last'.fmt \in {None, Fmt("vm")}
  /\ ~last'.head_only

\* C13: a model whose values have 32-bit representations, written in the vm
\* format and read back, has the shape, nr, origin, spacing, grid values and
\* rf, jp, ir, ij that it had.
C13_WriteReadRoundTrip ==
  [][(ReadsBack /\ Representable) =>
       /\ last'.err = "none"
       /\ <<shape, origin, spacing, sl, rf, jp, ir, ij>>'
            = <<shape, origin, spacing, sl, rf, jp, ir, ij>>]_vars

\* a model of two interfaces, masks that exclude nodes and grid values other
\* than zero was read from the file that holds it
C13_Witness ==
  /\ last.op = "read"
  /\ last.err = "none"
  /\ last.target.name = "m"
  /\ ~last.head_only
  /\ files[file_of(last.target)] = write_vm_words
  /\ Representable
  /\ Len(rf) >= 2
  /\ \E k \in 1 .. Len(ir) : \E n \in DOMAIN ir[k] : ir[k][n] = -1
  /\ \E n \in DOMAIN sl : sl[n] # 0

\* C14: a header (a, b, c, nr) with c = 0 gives the shape (a, 1, b), any
\* other the shape (a, b, c); the origin is the first triple of floats and
\* the spacing the third one, whatever the second.
C14_HeaderShape ==
  [][(last'.op = "read" /\ last'.method = "vm"
      /\ Len(files[file_of(last'.target)]) >= HeaderWords) =>
       LET w == files[file_of(last'.target)]
       IN  /\ shape' = IF w[3].v = 0 THEN <<w[1].v, 1, w[2].v>>
                       ELSE <<w[1].v, w[2].v, w[3].v>>
           /\ origin' = <<w[5].v, w[6].v, w[7].v>>
           /\ spacing' = <<w[11].v, w[12].v, w[13].v>>]_vars

\* the file with nz = 0 in its header was read: ny is 1 and the far corner
\* of the model is not the one of the file
C14_Witness ==
  /\ last.op = "read"
  /\ last.err = "none"
  /\ last.target.name = "old"
  /\ files[<<"old", "vm">>][3].v = 0
  /\ shape = <<2, 1, 2>>
  /\ spacing = <<1, 1, 2>>
  /\ r2 # <<9, 9, 9>>

\* C15: read and write take a path or an open handle: for a path without
\* fmt the extension names the method, and vm is used when there is no such
\* method; for a handle without fmt the vm format is used, the call returns
\* and the handle stays open.
C15_PathOrHandle ==
  [][(last'.op \in {"read", "write"} /\ last'.fmt = None
      /\ last'.method # "none") =>
       LET formats == IF last'.op = "read" THEN ReadFormats
                      ELSE WriteFormats
       IN  /\ last'.target.kind = "path" =>
                last'.method = IF last'.target.ext \in formats
                               THEN last'.target.ext ELSE "vm"
           /\ last'.target.kind = "handle" =>
                /\ last'.method = "vm"
                /\ last'.op = "write" => last'.err = "none"
                /\ ~last'.closed]_vars

(***************************************************************************)
(* Properties of verify, under SpecVerify.                                 *)
(***************************************************************************)
\* an array of surfaces has the shape (nr, nx, ny)
HasModelShape(arr) ==
  /\ Len(arr) = nr
  /\ \A k \in 1 .. Len(arr) : DOMAIN arr[k] = Nodes(nx, ny)

\* the value v occurs in the depths
DepthIs(v) == \E k \in 1 .. Len(rf) : \E n \in DOMAIN rf[k] : rf[k][n] = v

\* the model has one of the problems verify is to find
Problem ==
  \/ Len(shape) # 3
  \/ \E n \in DOMAIN sl : sl[n] = NaN
  \/ \E n \in DOMAIN sl : sl[n] = 0
  \/ /\ nr > 0
     /\ \/ \E arr \in {rf, jp, ir, ij} : ~HasModelShape(arr)
        \/ DepthIs(NaN)
        \/ DepthIs(Inf)

(* C16: verify() returns true if and only if the model has no problem: the *)
(* grid values are a 3-D array with no NaN and no zero slowness and, when  *)
(* nr > 0, each of rf, jp, ir and ij has the shape (nr, nx, ny) and no     *)
(* depth is NaN or infinite.                                               *)
C16_TrueIffNoProblem ==
  [][last'.op = "verify" => (last'.ret <=> ~Problem')]_vars

(* C17: when verify() finds a problem, it raises an error if raise_error   *)
(* is set, else warns and returns false if warn is set, else returns false *)
(* silently; it never changes the model.                                   *)
C17_OutcomeByConfiguration ==
  [][last'.op = "verify" /\ last'.n > 0 =>
       /\ last'.raise_error => last'.err = "VMError"
       /\ ~last'.raise_error /\ last'.warn =>
            last'.err = "none" /\ last'.warned /\ ~last'.ret
       /\ ~last'.raise_error /\ ~last'.warn =>
            last'.err = "none" /\ ~last'.warned /\ ~last'.ret
       /\ UNCHANGED <<shape, origin, spacing, sl, rf, jp, ir, ij>>]_vars

(***************************************************************************)
(* Properties of define_constant_layer_gradient, under SpecGradient.       *)
(***************************************************************************)
\* the last call defined a gradient with a given v0
GradientDefined ==
  /\ last.op = "define_constant_layer_gradient"
  /\ last.err = "none"
  /\ last.v0.kind = "scalar"

\* the layer of the last call has the thickness d at every horizontal node
Thickness(d) == \A c \in Nodes(nx, ny) : last.z1[c] - last.z0[c] = d

\* the grid samples of the column c that lie in the layer of the last call
InLayer(c) ==
  {iz \in 0 .. nz - 1 : last.z0[c] <= grid_z(iz) /\ grid_z(iz) <= last.z1[c]}

\* the depth z is that of a grid sample
OnNode(z) == \E iz \in 0 .. nz - 1 : grid_z(iz) = z

\* the velocity at the sample iz of the column c is v
VelocityIs(c, iz, v) == sl[<<c[1], c[2], iz>>] = reciprocal(v)

\* v0 + g * d at the bottom-most sample of every column, v0 at the top-most
EndVelocities(d) ==
  \A c \in Nodes(nx, ny) :
    InLayer(c) # {} =>
      /\ VelocityIs(c, Max(InLayer(c)), last.v0.val + last.dvdz * d)
      /\ VelocityIs(c, -Max({-iz : iz \in InLayer(c)}), last.v0.val)

(* C18 as stated: for a layer l of the same thickness d at every           *)
(* horizontal node, define_constant_layer_gradient(l, g, v0) leaves the    *)
(* velocity v0 + g*d at the layer's bottom-most grid sample and v0 at its  *)
(* top-most sample, at every horizontal node.                              *)
C18_EndVelocities ==
  [][GradientDefined' =>
       \A d \in 0 .. MaxCoord : Thickness(d)' => EndVelocities(d)']_vars

(* C18, amended: the same, for a layer whose top and bottom lie on grid    *)
(* samples at every horizontal node.                                       *)
C18_EndVelocitiesOnNodes ==
  [][GradientDefined' =>
       \A d \in 0 .. MaxCoord :
         /\ Thickness(d)'
         /\ \A c \in Nodes(nx, ny) : OnNode(last'.z0[c]) /\ OnNode(last'.z1[c])
         => EndVelocities(d)']_vars

\* a gradient of 1 over a layer two samples thick, on a grid of spacing 2
C18_Witness ==
  /\ GradientDefined
  /\ last.dvdz = 1
  /\ dz = 2
  /\ Thickness(2)
  /\ \A c \in Nodes(nx, ny) : OnNode(last.z0[c]) /\ OnNode(last.z1[c])
  /\ \A c \in Nodes(nx, ny) : Cardinality(InLayer(c)) = 2
  /\ EndVelocities(2)

(***************************************************************************)
(* Properties of the renumbering in insert_interface, under Spec.          *)
(***************************************************************************)
\* the mask surface a call of insert_interface supplies: the given one, or
\* the default, the index k of the new interface
Supplied(a, k) ==
  IF a.kind = "none" THEN Full(shape[1], shape[2], k) ELSE SurfaceOf(a)

\* a mask value after the renumbering for an insertion at k
Incremented(v, k) == IF v >= k THEN v + 1 ELSE v

(* C19 as stated: after insert_interface inserts at position k, every ir   *)
(* and ij entry of an interface at a position >= k of the new stack whose  *)
(* value is >= k has been incremented by exactly one, and every other mask *)
(* entry is unchanged.  The entries of the new interface, at position k,   *)
(* are those the call supplied.                                            *)
C19_RenumberedFromNew ==
  [][Inserted =>
       LET k == last'.ret
       IN  \A m \in {<<ir, ir', last'.ir>>, <<ij, ij', last'.ij>>} :
             \A p \in 0 .. Len(m[2]) - 1 : \A n \in DOMAIN m[2][p + 1] :
               m[2][p + 1][n] =
                 IF p < k THEN m[1][p + 1][n]
                 ELSE IF p = k THEN Incremented(Supplied(m[3], k)[n], k)
                 ELSE Incremented(m[1][p][n], k)]_vars

(* C19, amended: after insert_interface inserts at position k, every ir    *)
(* and ij entry of an interface at a position > k of the new stack whose   *)
(* value is >= k has been incremented by exactly one, and every other mask *)
(* entry of the interfaces that existed is unchanged.                      *)
C19_RenumberedBelowNew ==
  [][Inserted =>
       LET k == last'.ret
       IN  \A m \in {<<ir, ir'>>, <<ij, ij'>>} :
             \A p \in (0 .. Len(m[2]) - 1) \ {k} :
               \A n \in DOMAIN m[2][p + 1] :
                 m[2][p + 1][n] =
                   IF p < k THEN m[1][p + 1][n]
                   ELSE Incremented(m[1][p][n], k)]_vars

\* an interface was inserted on top of one whose depth mask is -1 and whose
\* jump mask was 0: the first is kept, the second is now 1
C19_Witness ==
  /\ last.op = "insert_interface"
  /\ last.err = "none"
  /\ last.ret = 0
  /\ Len(ir) = 2
  /\ \E n \in DOMAIN ir[2] : ir[2][n] = -1
  /\ \E n \in DOMAIN ij[2] : ij[2][n] = 1

(***************************************************************************)
(* Properties of apply_jumps and remove_jumps, under SpecJumpDepths.       *)
(***************************************************************************)
\* a call of apply_jumps or remove_jumps that returned
Jumped ==
  /\ last.op \in {"apply_jumps", "remove_jumps"}
  /\ last.err = "none"

\* the interfaces the last call selected, in order
Selection ==
  IF last.iref.kind = "none" THEN [k \in 1 .. nr |-> k - 1] ELSE last.iref.val

\* the samples of the column c whose depth is at or below that of interface i
AtOrBelow ==
  [i \in 0 .. nr - 1 |->
     [c \in Nodes(nx, ny) |->
        {iz \in 0 .. nz - 1 : grid_z(iz) >= At(rf, i)[c]}]]

Distance(a, b) == IF a >= b THEN a - b ELSE b - a

\* the sample nearest to the depth z; of two equally near, the even one
Nearest(z) ==
  CHOOSE iz \in 0 .. nz - 1 :
    \A other \in (0 .. nz - 1) \ {iz} :
      \/ Distance(grid_z(iz), z) < Distance(grid_z(other), z)
      \/ Distance(grid_z(iz), z) = Distance(grid_z(other), z) /\ iz % 2 = 0

\* the samples of the column c from the one nearest to interface i downwards
FromNearest ==
  [i \in 0 .. nr - 1 |->
     [c \in Nodes(nx, ny) |-> {iz \in 0 .. nz - 1 : iz >= Nearest(At(rf, i)[c])}]]

\* the sum of the jumps of the selected interfaces whose samples, as given
\* by S, include the sample n
RECURSIVE JumpTotal(_, _, _)
JumpTotal(irefs, n, S) ==
  IF irefs = << >> THEN 0
  ELSE (IF n[3] \in S[Head(irefs)][<<n[1], n[2]>>]
          THEN At(jp, Head(irefs))[<<n[1], n[2]>>] ELSE 0)
       + JumpTotal(Tail(irefs), n, S)

\* the last call added (apply) or subtracted (remove) the jumps on S
JumpsOn(S) ==
  \A n \in DOMAIN sl :
    sl[n] = last.before[n]
            + (IF last.op = "remove_jumps" THEN -1 ELSE 1)
              * JumpTotal(Selection, n, S)

(* C20 as stated: apply_jumps adds jp[i] at the horizontal node (x, y) to  *)
(* exactly the grid samples whose depth is at or below rf[i] at (x, y),    *)
(* and remove_jumps subtracts from the same samples, also when rf[i] is    *)
(* not on a grid node or lies outside the depth range of the model.        *)
C20_AtOrBelowInterface == Jumped => JumpsOn(AtOrBelow)

(* C20, amended: apply_jumps adds jp[i] at (x, y) to exactly the grid      *)
(* samples from the one nearest to rf[i] at (x, y) downwards (of two       *)
(* equally near samples, the one of even index), and remove_jumps          *)
(* subtracts from the same samples.                                        *)
C20_FromNearestSample == Jumped => JumpsOn(FromNearest)

\* a jump was applied at an interface below the bottom of the model and
\* reached the last sample
C20_Witness ==
  /\ last.op = "apply_jumps"
  /\ last.err = "none"
  /\ Selection # << >>
  /\ \E i \in 0 .. nr - 1 : \E c \in Nodes(nx, ny) :
       /\ \E k \in 1 .. Len(Selection) : Selection[k] = i
       /\ At(rf, i)[c] > grid_z(nz - 1)
       /\ sl[<<c[1], c[2], nz - 1>>] # last.before[<<c[1], c[2], nz - 1>>]

(***************************************************************************)
(* Properties of coord2index, under SpecGrid.                              *)
(***************************************************************************)
\* q is the integer nearest to a / d; of two equally near, the even one
NearestInteger(q, a, d) ==
  /\ 2 * Distance(a, q * d) <= d
  /\ 2 * Distance(a, q * d) = d => q % 2 = 0

(* C21: along every axis the index of a coordinate is                      *)
(* clip(round((coord - origin) / spacing), 0, n - 1), ties rounded to the  *)
(* even integer; it lies in 0 .. n - 1, is 0 for a coordinate below the    *)
(* first node and n - 1 for one beyond the last node, and nothing is       *)
(* raised.                                                                 *)
C21_ClippedRounding ==
  last.op = "coord2index" =>
    LET n == shape[last.axis]
        x0 == origin[last.axis]
        d == spacing[last.axis]
    IN  /\ last.err = "none"
        /\ \E q \in -2 * MaxCoord - 2 .. 2 * MaxCoord + 2 :
             /\ NearestInteger(q, last.x - x0, d)
             /\ last.ret = IF q < 0 THEN 0 ELSE IF q > n - 1 THEN n - 1 ELSE q
        /\ last.ret \in 0 .. n - 1
        /\ last.x < x0 => last.ret = 0
        /\ last.x > x0 + d * (n - 1) => last.ret = n - 1

\* a coordinate halfway between the nodes 1 and 2 was converted to 2, and
\* one halfway between the nodes 0 and 1 to 0
C21_Witness ==
  /\ last.op = "coord2index"
  /\ spacing[last.axis] = 2
  /\ shape[last.axis] >= 3
  /\ \/ last.x - origin[last.axis] = 3 /\ last.ret = 2
     \/ last.x - origin[last.axis] = 1 /\ last.ret = 0

(***************************************************************************)
(* Properties of the vm format, under SpecIO.                              *)
(***************************************************************************)
\* the place in a file of the model's shape shp and n interfaces of the
\* value at node c of interface k (1-based) in block b: 0 is rf, 1 is jp,
\* 2 is ir and 3 is ij
WordAt(shp, n, b, k, c) ==
  HeaderWords + shp[1] * shp[2] * shp[3] + b * (n * shp[1] * shp[2])
  + ((k - 1) * shp[1] + c[1]) * shp[2] + c[2] + 1

\* the words w hold the arrays a_rf, a_jp, a_ir and a_ij of a model of the
\* shape shp, the masks one higher than in memory
HoldsInterfaces(w, shp, a_rf, a_jp, a_ir, a_ij) ==
  LET n == Len(a_rf)
  IN  /\ Len(w) = HeaderWords + shp[1] * shp[2] * shp[3]
                  + 4 * (n * shp[1] * shp[2])
      /\ \A k \in 1 .. n : \A c \in Nodes(shp[1], shp[2]) :
           /\ w[WordAt(shp, n, 0, k, c)].v = a_rf[k][c]
           /\ w[WordAt(shp, n, 1, k, c)].v = a_jp[k][c]
           /\ w[WordAt(shp, n, 2, k, c)].v = a_ir[k][c] + 1
           /\ w[WordAt(shp, n, 3, k, c)].v = a_ij[k][c] + 1

(* C22: in the vm format every ir and ij value v of the model is written   *)
(* as v + 1 and every stored value w is read back as w - 1, so that -1 is  *)
(* stored as 0; rf and jp are written as they are; with nr = 0 nothing is  *)
(* written after the grid values.                                          *)
C22_MasksStoredOneHigher ==
  [][/\ (last'.op = "write" /\ last'.method = "vm" /\ last'.err = "none"
         /\ Representable) =>
          HoldsInterfaces(files'[file_of(last'.target)], shape,
                          rf, jp, ir, ij)
     /\ (last'.op = "read" /\ last'.method = "vm" /\ last'.err = "none"
         /\ ~last'.head_only) =>
          HoldsInterfaces(files[file_of(last'.target)], shape',
                          rf', jp', ir', ij')]_vars

\* a model with a mask entry -1 was written in the vm format: the file holds
\* 0 in its place
C22_Witness ==
  /\ last.op = "write"
  /\ last.method = "vm"
  /\ last.err = "none"
  /\ nr > 0
  /\ \E k \in 1 .. nr : \E c \in Nodes(nx, ny) :
       /\ ir[k][c] = -1
       /\ files[file_of(last.target)][WordAt(shape, nr, 2, k, c)].v = 0

(***************************************************************************)
(* Properties of define_stretched_layer_velocities and                     *)
(* define_constant_layer_velocity, under SpecStretch.                      *)
(***************************************************************************)
\* the call the step has made, if any
Stretched ==
  /\ last'.op = "define_stretched_layer_velocities"
  /\ last'.err # "AssertionError"

\* the column of the grid at one horizontal node
Column(g, c) == [iz \in 0 .. nz - 1 |-> g[<<c[1], c[2], iz>>]]

\* C23: define_stretched_layer_velocities, and so
\* define_constant_layer_velocity, leaves the grid unchanged at every
\* horizontal node where the layer has no thickness, its top being at or
\* below its bottom.
C23_PinchoutUntouched ==
  [][Stretched =>
       \A c \in Nodes(nx, ny) :
         last'.z0[c] >= last'.z1[c] => Column(sl', c) = Column(sl, c)]_vars

\* the columns a call was asked to work on in which the layer has samples,
\* with the first and the last of these samples
Painted ==
  {c \in xrange2i(last'.xmin, last'.xmax) \X yrange2i(last'.ymin, last'.ymax) :
     z2i(last'.z0[c]) < z2i(last'.z1[c])}

TopSample(c) == z2i(last'.z0[c])

BottomSample(c) == z2i(last'.z1[c])

Lowest(a, b) == IF a <= b THEN a ELSE b

\* the velocity a None in the first position stands for is that of the
\* sample above the top sample of the layer
FirstFromAbove ==
  \A c \in Painted :
    (last'.vel[1] = None /\ grid_z(TopSample(c)) <= last'.z0[c]) =>
      sl'[<<c[1], c[2], TopSample(c)>>]
        = sl[<<c[1], c[2], Max({TopSample(c) - 1, 0})>>]

\* the velocity a None in the last position stands for is that of the
\* sample below the bottom sample of the layer
LastFromBelow ==
  \A c \in Painted :
    (last'.vel[Len(last'.vel)] = None
       /\ grid_z(BottomSample(c)) >= last'.z1[c]) =>
      sl'[<<c[1], c[2], BottomSample(c)>>]
        = sl[<<c[1], c[2], Lowest(BottomSample(c) + 1, nz - 1)>>]

\* C24: in define_stretched_layer_velocities with two or more velocities, a
\* None in the first position is replaced by the velocity of the sample
\* directly above the top sample of the layer at that node, and a None in
\* the last position by the velocity of the sample directly below its bottom
\* sample, the index of the sample being kept within 0 .. nz - 1, so that
\* no index is out of range.
C24_NoneFromNeighbours ==
  [][(Stretched /\ Len(last'.vel) >= 2) =>
       /\ last'.err = "none"
       /\ FirstFromAbove
       /\ LastFromBelow]_vars

\* a call of one of the operators that define velocities in a layer
Defined ==
  /\ last'.op \in {"define_stretched_layer_velocities",
                   "define_constant_layer_gradient"}
  /\ last'.err # "AssertionError"

\* the depth indices the operators assign to in the layer l at the node c
Span(l, c) ==
  {iz \in 0 .. nz - 1 :
     z2i(layer_top(l)[c]) <= iz /\ iz <= z2i(layer_bottom(l)[c])}

\* the samples a call has changed
Changed == {n \in DOMAIN sl : sl'[n] # sl[n]}

\* x and y are within the limits given to the call
WithinLimits(x, y, l) ==
  /\ l.xmin # None => x >= l.xmin.val
  /\ l.xmax # None => x <= l.xmax.val
  /\ l.ymin # None => y >= l.ymin.val
  /\ l.ymax # None => y <= l.ymax.val

\* C29 as stated: at each horizontal node the spans of depth indices written
\* for two different layers are disjoint, so that defining the velocities of
\* a layer changes no sample of the span of another layer; a call changes
\* no sample outside the x and y limits it is given, and never changes rf,
\* jp, ir or ij.
C29_DisjointSpans ==
  [][Defined =>
       /\ UNCHANGED <<rf, jp, ir, ij>>
       /\ \A n \in Changed :
            /\ WithinLimits(grid_x(n[1]), grid_y(n[2]), last')
            /\ n[3] \in Span(last'.ilyr, <<n[1], n[2]>>)
            /\ \A l \in (0 .. nr) \ {last'.ilyr} :
                 n[3] \notin Span(l, <<n[1], n[2]>>)]_vars

\* C29, amended: at each horizontal node the spans written for two adjacent
\* layers l and l + 1 share at most one sample, the one nearest to the
\* interface between them, so that defining the velocities of a layer
\* changes no sample of the span of the layer above or below it but that
\* one; a call changes no sample outside the columns from the node nearest
\* to its lower x and y limits to the node nearest to its upper ones, and
\* never changes rf, jp, ir or ij.
C29_SharedSampleOnly ==
  [][Defined =>
       /\ UNCHANGED <<rf, jp, ir, ij>>
       /\ \A n \in Changed :
            /\ n[1] \in xrange2i(last'.xmin, last'.xmax)
            /\ n[2] \in yrange2i(last'.ymin, last'.ymax)
            /\ n[3] \in Span(last'.ilyr, <<n[1], n[2]>>)
            /\ \A l \in (0 .. nr - 1) \cap {last'.ilyr - 1, last'.ilyr} :
                 n[3] \in Span(l, <<n[1], n[2]>>)
                        \cap Span(l + 1, <<n[1], n[2]>>)
                   => n[3] = z2i(rf[l + 1][<<n[1], n[2]>>])
       /\ \A l \in 0 .. nr - 1 : \A c \in Nodes(nx, ny) :
            Span(l, c) \cap Span(l + 1, c) \subseteq {z2i(rf[l + 1][c])}]_vars

\* layer 1 has been given the velocity 3 in one column only, and there the
\* sample nearest to the interface above it, which layer 0 shares, holds it
C29_Witness ==
  /\ last.op = "define_stretched_layer_velocities"
  /\ last.err = "none"
  /\ last.ilyr = 1
  /\ last.vel = <<Scalar(3)>>
  /\ nr >= 1
  /\ nx = 2
  /\ sl[<<1, 0, z2i(rf[1][<<1, 0>>])>>] = reciprocal(3)
  /\ sl[<<0, 0, z2i(rf[1][<<0, 0>>])>>] = reciprocal(1)
  /\ sl[<<1, 0, 0>>] = reciprocal(1)


(***************************************************************************)
(* Properties of fix_pinchouts, under SpecPinch.                           *)
(***************************************************************************)
\* the minimum thickness of the last call
MinThickness(l) == IF l.min_dz = None THEN dz ELSE l.min_dz.val

\* every interface is at least m below the one before it, at every node
Separated(r, m) ==
  \A i \in 2 .. Len(r) : \A c \in DOMAIN r[i] : r[i][c] - r[i - 1][c] >= m

\* C25: after fix_pinchouts with a minimum thickness that is not negative,
\* on a stack of any number of interfaces with any depths, each interface is
\* at least the minimum thickness below the one before it at every
\* horizontal node, so that no two interfaces cross; a second fix_pinchouts
\* with the same minimum thickness changes nothing.
C25_FixedAndIdempotent ==
  [][last'.op = "fix_pinchouts" =>
       /\ Separated(rf', MinThickness(last'))
       /\ (last.op = "fix_pinchouts" /\ last.min_dz = last'.min_dz) =>
            rf' = rf]_vars

\* fix_pinchouts has moved interfaces of a stack of three
C25_Witness ==
  /\ last.op = "fix_pinchouts"
  /\ last.changed
  /\ nr = 3
  /\ \E c \in Nodes(nx, ny) : rf[2][c] > rf[1][c] /\ rf[2][c] - rf[1][c] = 2

(***************************************************************************)
(* Properties of Rayfan.read, under SpecRays.                              *)
(***************************************************************************)
\* the bytes the arrays and paths the header declares take, and the bytes
\* the file holds after the header
BytesDeclared(f) == 4 * (7 * f.words[2] + 3 * f.words[3])

BytesLeft(f) == filesize(f) - 12

\* C26: reading a rayfan whose header declares a number of rays and a number
\* of path nodes that need more bytes than the file has left raises
\* RayfanReadingError at once, before any of the per-ray arrays is unpacked,
\* so that no rayfan filled in part is returned.
C26_ShortFileRejected ==
  (last.op = "Rayfan.read" /\ BytesDeclared(files[1]) > BytesLeft(files[1])) =>
    (last.err = "RayfanReadingError" /\ last.arrays = 0 /\ last.paths = 0)

(***************************************************************************)
(* More properties of insert_interface, under Spec.                        *)
(***************************************************************************)
\* C27: after any sequence of insert_interface calls on a new model, the
\* maximum depths of the interfaces do not decrease with their index; so
\* flat interfaces inserted in any order are stored in the order of their
\* depths.
C27_SortedByMaximum ==
  \A i \in 1 .. Len(rf) - 1 : Highest(rf[i]) <= Highest(rf[i + 1])

\* a flat interface was inserted above a deeper flat one inserted before it
C27_Witness ==
  /\ last.op = "insert_interface"
  /\ last.err = "none"
  /\ last.ret = 0
  /\ Len(rf) = 2
  /\ Uniform(rf[1], 0)
  /\ Uniform(rf[2], MaxDepth)

(***************************************************************************)
(* Properties of insert_interface, under SpecMasks.                        *)
(***************************************************************************)
\* C28: insert_interface keeps what each mask entry of the interfaces that
\* existed points to: an ir or ij entry of an existing interface, wherever
\* the new one goes, that held the index of an interface holds the new index
\* of that interface after the call, and an entry of -1 stays -1.
C28_MasksFollow ==
  [][Inserted =>
       LET k == last'.ret
       IN  \A m \in {<<ir, ir'>>, <<ij, ij'>>} :
             \A p \in 0 .. Len(m[1]) - 1 : \A n \in DOMAIN m[1][p + 1] :
               LET v == m[1][p + 1][n]
                   w == m[2][Incremented(p, k) + 1][n]
               IN  /\ v = -1 => w = -1
                   /\ v \in 0 .. Len(rf) - 1 => w = Incremented(v, k)]_vars

(***************************************************************************)
(* More properties of the assignments, under SpecAssign.                   *)
(***************************************************************************)
\* C30: assigning r2 = (x, y, z) changes the grid spacing only, the shape,
\* the origin and the values of the grid being kept, and r2 then reads as the
\* (x, y, z) assigned.
C30_FarCornerReadsBack ==
  [][(last'.op = "set" /\ last'.attr = "r2" /\ last'.err = "none") =>
       /\ UNCHANGED <<shape, origin, sl>>
       /\ r2' = last'.value]_vars

====
